---- MODULE Spec2Model ----
(***************************************************************************)
(* simple-db: an embedded database with an in-memory table store, an       *)
(* append-only operation log with snapshots, and a buffered transaction    *)
(* protocol.  The model follows src/simple-db/src/{types,query,storage,    *)
(* engine}.rs.                                                             *)
(*                                                                         *)
(* Values are records [tag, val]; a row is [id, data] where data maps the  *)
(* columns that were set to their values (created_at / updated_at are not  *)
(* modelled: no operation reads them).  A table is [name, schema, rows],   *)
(* the store maps the names of the existing tables to their tables.        *)
(***************************************************************************)
EXTENDS Integers, Sequences, FiniteSets, TLC

\* ------------------------------------------------------------------ bounds
\* Total number of operations issued to the engine: facade calls, statements
\* buffered in a transaction, rows of a batch.
MaxOps == 4
\* Number of write_log calls that the file system may fail.
MaxIoFaults == 1
\* Number of elements in one write batch (transaction buffer, batch_insert).
MaxBatch == 2
\* Total number of operations when several tasks share the engine.
MaxConcOps == 3
\* Number of lines of a log file read on its own.
MaxLines == 3
\* Number of rows inserted into a table on its own.
MaxInserts == 2
\* Number of rows of a table queried on its own.
MaxRows == 2

Tasks == {1, 2}
NoTask == 0
TableNames == {"t"}

\* ------------------------------------------------------------------ values
Null == [tag |-> "Null", val |-> 0]
IntegerValue(n) == [tag |-> "Integer", val |-> n]
\* Value::Text: the string as the sequence of its characters.
TextValue(s) == [tag |-> "Text", val |-> s]
\* Value::Json over a serde_json value: a number or an array of values.
JsonNumber(n) == [kind |-> "number", n |-> n, items |-> <<>>]
JsonArray(items) == [kind |-> "array", n |-> 0, items |-> items]
JsonValue(json) == [tag |-> "Json", val |-> json]
\* Option::None: no value (a missing column, no default value).
NoValue == [tag |-> "None", val |-> 0]

is_null(v) == v.tag = "Null"

\* ------------------------------------------------------------------ schema
ColumnDefinitionNew(name, primary_key) ==
    [name |-> name, nullable |-> ~primary_key, unique |-> primary_key,
     default_value |-> NoValue, primary_key |-> primary_key]

WithUnique(column, unique) == [column EXCEPT !.unique = unique]
WithNullable(column, nullable) == [column EXCEPT !.nullable = nullable]
WithDefault(column, value) == [column EXCEPT !.default_value = value]

\* The schemas callers create tables with.
\* id INTEGER PRIMARY KEY, v INTEGER (the schema of the tests).
SchemaPk == <<ColumnDefinitionNew("id", TRUE), ColumnDefinitionNew("v", FALSE)>>
\* id PRIMARY KEY with unique(false), v UNIQUE.
SchemaPkNotUnique ==
    <<WithUnique(ColumnDefinitionNew("id", TRUE), FALSE),
      WithUnique(ColumnDefinitionNew("v", FALSE), TRUE)>>
Schemas == {SchemaPk, SchemaPkNotUnique}

get_primary_key_columns(schema) ==
    {i \in 1..Len(schema) : schema[i].primary_key}

\* ------------------------------------------------------------------ rows
RowNew(id) == [id |-> id, data |-> <<>>]
RowGet(row, column) ==
    IF column \in DOMAIN row.data THEN row.data[column] ELSE NoValue
RowSet(row, column, value) ==
    [row EXCEPT !.data = (column :> value) @@ @]
\* for (column, value) in data { row.set(column, value) }
RowSetAll(row, data) ==
    [row EXCEPT !.data = data @@ @]

validate_row(schema, row) ==
    IF \E i \in 1..Len(schema) :
          /\ ~schema[i].nullable
          /\ ~schema[i].primary_key
          /\ LET v == RowGet(row, schema[i].name) IN v = NoValue \/ is_null(v)
          /\ schema[i].default_value = NoValue
    THEN "NotNullViolation"
    ELSE IF /\ get_primary_key_columns(schema) # {}
            /\ ~ \E i \in get_primary_key_columns(schema) :
                   LET v == RowGet(row, schema[i].name)
                   IN  v # NoValue /\ ~is_null(v)
         THEN "NotNullViolation"
         ELSE "Ok"

\* ------------------------------------------------------------------ tables
TableNew(name, schema) == [name |-> name, schema |-> schema, rows |-> <<>>]

column_has_unique_constraint(schema) ==
    \E i \in 1..Len(schema) : schema[i].unique \/ schema[i].primary_key

\* An insert that leaves the row as the caller gave it.
BackfillNothing(schema, row) == row

\* The default-value backfill of Table::insert.
Backfill(schema, row) ==
    LET missing == {i \in 1..Len(schema) :
                       /\ schema[i].name \notin DOMAIN row.data
                       /\ schema[i].default_value # NoValue}
    IN  RowSetAll(row, [c \in {schema[i].name : i \in missing} |->
                          schema[CHOOSE i \in missing : schema[i].name = c].default_value])

\* The column test of the uniqueness scan of Table::insert.
UniqueScanColumn(column) == column.unique

\* The linear uniqueness scan of Table::insert.
UniqueScanHit(table, row) ==
    /\ column_has_unique_constraint(table.schema)
    /\ \E k \in 1..Len(table.rows) : \E i \in 1..Len(table.schema) :
          /\ UniqueScanColumn(table.schema[i])
          /\ LET new_val == RowGet(row, table.schema[i].name)
                 existing_val == RowGet(table.rows[k], table.schema[i].name)
             IN  /\ new_val # NoValue
                 /\ existing_val # NoValue
                 /\ new_val = existing_val
                 /\ ~is_null(new_val)

\* Table::insert: [err, table].
TableInsert(table, row) ==
    IF validate_row(table.schema, row) # "Ok"
    THEN [err |-> validate_row(table.schema, row), table |-> table]
    ELSE LET filled == Backfill(table.schema, row) IN
         IF UniqueScanHit(table, filled)
         THEN [err |-> "UniqueViolation", table |-> table]
         ELSE [err |-> "Ok",
               table |-> [table EXCEPT !.rows = Append(@, filled)]]

\* Table::update: the first row with the id gets the values.
TableUpdate(table, id, updates) ==
    IF \E k \in 1..Len(table.rows) : table.rows[k].id = id
    THEN LET k == CHOOSE j \in 1..Len(table.rows) :
                     /\ table.rows[j].id = id
                     /\ \A h \in 1..(j - 1) : table.rows[h].id # id
         IN  [err |-> "Ok",
              table |-> [table EXCEPT !.rows[k] = RowSetAll(@, updates)]]
    ELSE [err |-> "Other", table |-> table]

\* Vec::retain.
RECURSIVE Retain(_, _)
Retain(rows, id) ==
    IF rows = <<>> THEN <<>>
    ELSE IF Head(rows).id # id
         THEN <<Head(rows)>> \o Retain(Tail(rows), id)
         ELSE Retain(Tail(rows), id)

\* Table::delete.
TableDelete(table, id) ==
    LET kept == Retain(table.rows, id) IN
    IF Len(kept) = Len(table.rows)
    THEN [err |-> "Other", table |-> [table EXCEPT !.rows = kept]]
    ELSE [err |-> "Ok", table |-> [table EXCEPT !.rows = kept]]

\* ------------------------------------------------------------ MemoryStorage
MemoryStorageNew == <<>>

\* A create_table that replaces the table of that name.
create_table_replacing(storage, name, schema) ==
    [err |-> "Ok",
     st |-> [n \in DOMAIN storage \cup {name} |->
                IF n = name THEN TableNew(name, schema) ELSE storage[n]]]

create_table(storage, name, schema) ==
    IF name \in DOMAIN storage
    THEN [err |-> "TableExists", st |-> storage]
    ELSE [err |-> "Ok", st |-> (name :> TableNew(name, schema)) @@ storage]

drop_table(storage, name) ==
    IF name \notin DOMAIN storage
    THEN [err |-> "TableNotFound", st |-> storage]
    ELSE [err |-> "Ok", st |-> [n \in (DOMAIN storage) \ {name} |-> storage[n]]]

\* An insert_row that answers Ok and stores nothing.
insert_row_nowhere(storage, table_name, row) ==
    [err |-> "Ok", st |-> storage]
insert_row(storage, table_name, row) ==
    IF table_name \in DOMAIN storage
    THEN LET r == TableInsert(storage[table_name], row)
         IN  [err |-> r.err, st |-> [storage EXCEPT ![table_name] = r.table]]
    ELSE [err |-> "TableNotFound", st |-> storage]

update_row(storage, table_name, id, updates) ==
    IF table_name \in DOMAIN storage
    THEN LET r == TableUpdate(storage[table_name], id, updates)
         IN  [err |-> r.err, st |-> [storage EXCEPT ![table_name] = r.table]]
    ELSE [err |-> "TableNotFound", st |-> storage]

delete_row(storage, table_name, id) ==
    IF table_name \in DOMAIN storage
    THEN LET r == TableDelete(storage[table_name], id)
         IN  [err |-> r.err, st |-> [storage EXCEPT ![table_name] = r.table]]
    ELSE [err |-> "TableNotFound", st |-> storage]

\* HashMap::values(): the tables in no particular order.
get_all_data(storage) == {storage[n] : n \in DOMAIN storage}

\* --------------------------------------------------------------- conditions
ComparableTags == {"Integer", "Text", "Boolean"}

Cmp(a, b) == IF a < b THEN -1 ELSE IF a > b THEN 1 ELSE 0

\* The byte of a character, and String::cmp: the order of the byte sequences.
Byte(c) ==
    CASE c = "%" -> 37 [] c = "." -> 46 [] c = "_" -> 95 [] c = "a" -> 97
      [] c = "b" -> 98
RECURSIVE CmpText(_, _)
CmpText(a, b) ==
    IF a = <<>> \/ b = <<>> THEN Cmp(Len(a), Len(b))
    ELSE IF Head(a) # Head(b) THEN Cmp(Byte(Head(a)), Byte(Head(b)))
         ELSE CmpText(Tail(a), Tail(b))

\* Condition::compare_values(a: Option<&Value>, b: &Value): [err, ord].
compare_values(a, b) ==
    IF a.tag \in ComparableTags /\ a.tag = b.tag
    THEN [err |-> "Ok", ord |-> IF a.tag = "Text" THEN CmpText(a.val, b.val)
                                ELSE Cmp(a.val, b.val)]
    ELSE IF a = NoValue
         THEN [err |-> "Ok", ord |-> -1]
         ELSE [err |-> "TypeMismatch", ord |-> 0]

\* The match of ^pattern$ after replace("%", ".*").replace("_", "."): % takes
\* any run of characters, _ and the regex dot take one, a letter takes itself.
RECURSIVE LikeMatch(_, _)
LikeMatch(text, pattern) ==
    IF pattern = <<>> THEN text = <<>>
    ELSE IF Head(pattern) = "%"
         THEN \/ LikeMatch(text, Tail(pattern))
              \/ text # <<>> /\ LikeMatch(Tail(text), pattern)
         ELSE /\ text # <<>>
              /\ Head(pattern) \in {"_", "."} \/ Head(pattern) = Head(text)
              /\ LikeMatch(Tail(text), Tail(pattern))

\* Condition::evaluate_like.
evaluate_like(row_value, value) ==
    /\ row_value.tag = "Text"
    /\ value.tag = "Text"
    /\ LikeMatch(row_value.val, value.val)

\* Condition::evaluate_in: each item is wrapped by Value::from (a Value::Json)
\* and compared; a comparison that fails counts as equal (unwrap_or(0)).
evaluate_in(row_value, value) ==
    /\ value.tag = "Json"
    /\ value.val.kind = "array"
    /\ row_value # NoValue
    /\ \E k \in 1..Len(value.val.items) :
          LET c == compare_values(row_value, JsonValue(value.val.items[k]))
          IN  (IF c.err = "Ok" THEN c.ord ELSE 0) = 0

\* Condition::evaluate: [err, val].
evaluate(condition, row) ==
    LET row_value == RowGet(row, condition.column)
        c == compare_values(row_value, condition.value)
        Compared(b) == [err |-> c.err, val |-> c.err = "Ok" /\ b]
    IN  CASE condition.operator = "Equal" -> Compared(c.ord = 0)
          [] condition.operator = "NotEqual" -> Compared(c.ord # 0)
          [] condition.operator = "GreaterThan" -> Compared(c.ord > 0)
          [] condition.operator = "GreaterThanOrEqual" -> Compared(c.ord >= 0)
          [] condition.operator = "LessThan" -> Compared(c.ord < 0)
          [] condition.operator = "LessThanOrEqual" -> Compared(c.ord <= 0)
          [] condition.operator = "Like" ->
                [err |-> "Ok", val |-> evaluate_like(row_value, condition.value)]
          [] condition.operator = "In" ->
                [err |-> "Ok", val |-> evaluate_in(row_value, condition.value)]
          [] condition.operator = "IsNull" ->
                [err |-> "Ok", val |-> row_value = NoValue \/ is_null(row_value)]
          [] condition.operator = "IsNotNull" ->
                [err |-> "Ok", val |-> row_value # NoValue /\ ~is_null(row_value)]

\* conditions.iter().all(|c| c.evaluate(row).unwrap_or(false))
Matches(conditions, row) ==
    \A i \in 1..Len(conditions) :
        LET r == evaluate(conditions[i], row) IN r.err = "Ok" /\ r.val

Condition(column, operator, value) ==
    [column |-> column, operator |-> operator, value |-> value]

\* ------------------------------------------------------- StorageOperation
\* Uuid::to_string and Uuid::parse_str: the string form of a row id.
UuidToString(id) == <<"uuid", id>>
UuidParseStr(s) ==
    IF Len(s) = 2 /\ s[1] = "uuid"
    THEN [err |-> "Ok", id |-> s[2]]
    ELSE [err |-> "ParseError", id |-> 0]

OpCreate(table, schema) == [kind |-> "Create", table |-> table, schema |-> schema]
OpInsert(table, row) == [kind |-> "Insert", table |-> table, row |-> row]
OpUpdate(table, id, data) ==
    [kind |-> "Update", table |-> table, id |-> id, data |-> data]
OpDelete(table, id) == [kind |-> "Delete", table |-> table, id |-> id]
OpDrop(table) == [kind |-> "Drop", table |-> table]

\* DatabaseEngine::apply_log_operation: [err, st].
apply_log_operation(storage, operation) ==
    CASE operation.kind = "Create" ->
            create_table(storage, operation.table, operation.schema)
      [] operation.kind = "Insert" ->
            insert_row(storage, operation.table, operation.row)
      [] operation.kind = "Update" ->
            IF UuidParseStr(operation.id).err = "Ok"
            THEN update_row(storage, operation.table,
                            UuidParseStr(operation.id).id, operation.data)
            ELSE [err |-> "Ok", st |-> storage]
      [] operation.kind = "Delete" ->
            IF UuidParseStr(operation.id).err = "Ok"
            THEN delete_row(storage, operation.table, UuidParseStr(operation.id).id)
            ELSE [err |-> "Ok", st |-> storage]
      [] operation.kind = "Drop" ->
            drop_table(storage, operation.table)

\* for op in operations { apply_log_operation(storage, op)? }: the store after
\* the first failure or after the last operation, and the number applied.
RECURSIVE ApplyAll(_, _)
ApplyAll(storage, operations) ==
    IF operations = <<>>
    THEN [err |-> "Ok", st |-> storage, n |-> 0]
    ELSE LET r == apply_log_operation(storage, Head(operations)) IN
         IF r.err # "Ok"
         THEN [err |-> r.err, st |-> r.st, n |-> 0]
         ELSE LET rest == ApplyAll(r.st, Tail(operations))
              IN  [err |-> rest.err, st |-> rest.st, n |-> rest.n + 1]

\* ----------------------------------------------------------- StorageEngine
LogEntry(id, operation) == [id |-> id, operation |-> operation]
NoSnapshot == [present |-> FALSE]
Snapshot(tables, last_log_id) ==
    [present |-> TRUE, tables |-> tables, last_log_id |-> last_log_id]

\* A line of the log file is the JSON text of a LogEntry, written here as the
\* entry itself, or a blank line, or text that is no LogEntry (a truncated
\* entry for instance).
BlankLine == [blank |-> TRUE]
MalformedLine == [malformed |-> TRUE]

\* line.trim().is_empty()
is_empty(line) == line = BlankLine

\* serde_json::from_str::<LogEntry>(line): [err, entry].
from_str(line) ==
    IF DOMAIN line = {"id", "operation"}
    THEN [err |-> "Ok", entry |-> line]
    ELSE [err |-> "SerializationError", entry |-> LogEntry(0, OpDrop(""))]

\* StorageEngine::replay_logs: the entries of the lines of the file that are
\* not blank and parse, whose id is greater than from_id, in file order; a
\* missing file reads as the empty file.
replay_logs(file, from_id) ==
    LET kept == SelectSeq(file, LAMBDA line :
                    /\ ~is_empty(line)
                    /\ from_str(line).err = "Ok"
                    /\ from_str(line).entry.id > from_id)
    IN  [k \in 1..Len(kept) |-> from_str(kept[k]).entry]

Operations(entries) == [i \in 1..Len(entries) |-> entries[i].operation]

\* A write_log that would give the id of a failed append to the next entry.
write_log_reusing(id, file, operation, ok) ==
    [current_log_id |-> IF ok THEN id + 1 ELSE id,
     log_file |-> IF ok THEN Append(file, LogEntry(id + 1, operation)) ELSE file]

\* WriteLog's effect on (current_log_id, log file); ok = FALSE is an I/O error
\* of the open / write, which leaves the file as it was.
write_log(id, file, operation, ok) ==
    [current_log_id |-> id + 1,
     log_file |-> IF ok THEN Append(file, LogEntry(id + 1, operation)) ELSE file]

\* StorageEngine::create_snapshot.
create_snapshot(tables, id) == Snapshot(tables, id)

\* ------------------------------------------------------------------ inputs
I1 == IntegerValue(1)
I2 == IntegerValue(2)
\* The column -> value maps callers insert.
RowInputs == {[id |-> I1, v |-> I1], [id |-> I1, v |-> I2], [v |-> I1]}
\* The condition lists of update and delete.
CondInputs == {<<>>, <<Condition("v", "Equal", I1)>>}
\* The column -> value maps of update.
UpdateInputs == {[v |-> I2]}
\* The row lists of batch_insert (a list of one row is an insert).
BatchInputs ==
    UNION {[1..n -> RowInputs] : n \in 2..MaxBatch}

\* ------------------------------------------------------------------- state
VARIABLES
    store,           \* DatabaseEngine.storage: MemoryStorage.tables
    log_file,        \* data/transaction.log: the sequence of LogEntry lines
    snapshot_file,   \* data/snapshot.json
    current_log_id,  \* StorageEngine.current_log_id
    auto_save,       \* DatabaseEngine.auto_save
    writer,          \* the task holding storage in write mode, or NoTask
    readers,         \* per task, the read guards of storage it holds
    queue,           \* the tasks waiting for storage, first come first served
    pc,              \* per task, where it is in its facade call
    op,              \* per task, the call and its arguments
    loc,             \* per task, the locals of the call
    res,             \* per task, what its last call returned
    pre,             \* per task, store and log when its batch or scan began
    next_row_id,     \* the next fresh Uuid
    budget,          \* operations left
    faults,          \* I/O errors so far
    backup_dir,      \* the backup directory: its transaction.log and snapshot.json
    clean            \* every write so far was auto-saved and returned Ok

disk == <<log_file, snapshot_file, current_log_id, faults>>
lock == <<writer, readers, queue>>
vars == <<store, log_file, snapshot_file, current_log_id, auto_save, writer,
          readers, queue, pc, op, loc, res, pre, next_row_id, budget, faults,
          backup_dir, clean>>

NoOp == [kind |-> "none"]
NoLoc == [i |-> 0, ids |-> <<>>, n |-> 0]
NoRes == [kind |-> "none", err |-> "none", val |-> 0, rows |-> <<>>]
NoPre == [present |-> FALSE]
\* A backup directory that does not exist: it holds neither file.
NoBackup == [log_file |-> <<>>, snapshot_file |-> NoSnapshot]
Ok(val) == [err |-> "Ok", val |-> val, rows |-> <<>>]
Err(err) == [err |-> err, val |-> 0, rows |-> <<>>]

\* DatabaseEngine::new, with b operations to come.
InitWith(b) ==
    /\ store = MemoryStorageNew
    /\ log_file = <<>>
    /\ snapshot_file = NoSnapshot
    /\ current_log_id = 0
    /\ auto_save = TRUE
    /\ writer = NoTask
    /\ readers = [t \in Tasks |-> 0]
    /\ queue = <<>>
    /\ pc = [t \in Tasks |-> "idle"]
    /\ op = [t \in Tasks |-> NoOp]
    /\ loc = [t \in Tasks |-> NoLoc]
    /\ res = [t \in Tasks |-> NoRes]
    /\ pre = [t \in Tasks |-> NoPre]
    /\ next_row_id = 1
    /\ budget = b
    /\ faults = 0
    /\ backup_dir = NoBackup
    /\ clean = TRUE

Init == InitWith(MaxOps)

\* ---------------------------------------------------- tokio::sync::RwLock
NoReaders == \A u \in Tasks : readers[u] = 0

\* A lock that would serve readers while a writer holds it.
CompatibleReadAlways(mode) ==
    mode = "write" => (writer = NoTask /\ NoReaders)

\* Whether a request of the mode can be served now by the lock's holders.
Compatible(mode) ==
    /\ writer = NoTask
    /\ mode = "write" => NoReaders

\* A lock that serves every request at once, whoever holds it.
RequestServed(t, mode, next) ==
    /\ writer' = IF mode = "write" THEN t ELSE writer
    /\ readers' = IF mode = "read" THEN [readers EXCEPT ![t] = @ + 1] ELSE readers
    /\ queue' = queue
    /\ pc' = [pc EXCEPT ![t] = next]

\* storage.read().await / storage.write().await: served at once when nobody
\* waits and the holders allow it, else the task joins the queue.
Request(t, mode, next) ==
    IF queue = <<>> /\ Compatible(mode)
    THEN /\ writer' = IF mode = "write" THEN t ELSE writer
         /\ readers' = IF mode = "read" THEN [readers EXCEPT ![t] = @ + 1] ELSE readers
         /\ queue' = queue
         /\ pc' = [pc EXCEPT ![t] = next]
    ELSE /\ queue' = Append(queue, [task |-> t, mode |-> mode, next |-> next])
         /\ pc' = [pc EXCEPT ![t] = "wait"]
         /\ UNCHANGED <<writer, readers>>

\* The head of the queue is served when the holders allow it.
Grant(t) ==
    /\ pc[t] = "wait"
    /\ queue # <<>>
    /\ Head(queue).task = t
    /\ Compatible(Head(queue).mode)
    /\ writer' = IF Head(queue).mode = "write" THEN t ELSE writer
    /\ readers' = IF Head(queue).mode = "read"
                  THEN [readers EXCEPT ![t] = @ + 1] ELSE readers
    /\ queue' = Tail(queue)
    /\ pc' = [pc EXCEPT ![t] = Head(queue).next]
    /\ UNCHANGED <<store, disk, auto_save, op, loc, res, pre, next_row_id,
                   budget, clean, backup_dir>>

\* Dropping the write guard / one read guard.
ReleaseWrite == writer' = NoTask /\ UNCHANGED <<readers, queue>>
ReleaseRead(t) ==
    readers' = [readers EXCEPT ![t] = @ - 1] /\ UNCHANGED <<writer, queue>>

\* A facade call of task t returns r; its arguments and locals are dropped.
Return(t, r) ==
    /\ pc' = [pc EXCEPT ![t] = "idle"]
    /\ res' = [res EXCEPT ![t] = [kind |-> op[t].kind, err |-> r.err, val |-> r.val,
                                 rows |-> r.rows]]
    /\ op' = [op EXCEPT ![t] = NoOp]
    /\ loc' = [loc EXCEPT ![t] = NoLoc]
    /\ pre' = [pre EXCEPT ![t] = NoPre]
    /\ UNCHANGED backup_dir

\* A write call returns r: the history stays clean only on Ok under auto-save.
WriteReturn(t, r) ==
    /\ Return(t, r)
    /\ clean' = (clean /\ r.err = "Ok" /\ auto_save)

\* The call goes on: nothing is returned yet.
Continue(t) == UNCHANGED <<op, res, pre, clean, backup_dir>>

\* The call goes on; the store and log it found under its guard are kept for
\* the properties.
Remember(t) ==
    /\ pre' = [pre EXCEPT ![t] = [present |-> TRUE, store |-> store,
                                  log_file |-> log_file]]
    /\ UNCHANGED <<op, res, clean, backup_dir>>

\* A call begins.
Begin(t, o) ==
    /\ pc[t] = "idle"
    /\ budget > 0
    /\ budget' = budget - 1
    /\ op' = [op EXCEPT ![t] = o]
    /\ res' = [res EXCEPT ![t] = NoRes]
    /\ UNCHANGED <<store, disk, auto_save, loc, pre, clean, backup_dir>>

\* The effect of write_log on the disk; the file system may fail it.
WriteLog(operation, ok) ==
    /\ ok \/ faults < MaxIoFaults
    /\ LET w == write_log(current_log_id, log_file, operation, ok) IN
       /\ current_log_id' = w.current_log_id
       /\ log_file' = w.log_file
    /\ faults' = IF ok THEN faults ELSE faults + 1
    /\ UNCHANGED snapshot_file

\* --------------------------------------------------------- create_table
CreateTableCall(t) ==
    \E name \in TableNames, schema \in Schemas :
        /\ Begin(t, [kind |-> "create_table", table |-> name, schema |-> schema])
        /\ Request(t, "write", "create_table")
        /\ UNCHANGED next_row_id

CreateTableApply(t) ==
    /\ pc[t] = "create_table"
    /\ LET r == create_table(store, op[t].table, op[t].schema) IN
       /\ store' = r.st
       /\ IF r.err # "Ok" \/ ~auto_save
          THEN WriteReturn(t, Err(r.err)) /\ ReleaseWrite
          ELSE /\ pc' = [pc EXCEPT ![t] = "create_table_log"]
               /\ Continue(t)
               /\ UNCHANGED <<lock, loc>>
    /\ UNCHANGED <<disk, auto_save, next_row_id, budget>>

CreateTableLog(t) ==
    /\ pc[t] = "create_table_log"
    /\ \E ok \in BOOLEAN :
        /\ WriteLog(OpCreate(op[t].table, op[t].schema), ok)
        /\ WriteReturn(t, IF ok THEN Ok(0) ELSE Err("IoError"))
    /\ ReleaseWrite
    /\ UNCHANGED <<store, auto_save, next_row_id, budget>>

\* ----------------------------------------------------------- drop_table
DropTableCall(t) ==
    \E name \in TableNames :
        /\ Begin(t, [kind |-> "drop_table", table |-> name])
        /\ Request(t, "write", "drop_table")
        /\ UNCHANGED next_row_id

DropTableApply(t) ==
    /\ pc[t] = "drop_table"
    /\ LET r == drop_table(store, op[t].table) IN
       /\ store' = r.st
       /\ IF r.err # "Ok" \/ ~auto_save
          THEN WriteReturn(t, Err(r.err)) /\ ReleaseWrite
          ELSE /\ pc' = [pc EXCEPT ![t] = "drop_table_log"]
               /\ Continue(t)
               /\ UNCHANGED <<lock, loc>>
    /\ UNCHANGED <<disk, auto_save, next_row_id, budget>>

DropTableLog(t) ==
    /\ pc[t] = "drop_table_log"
    /\ \E ok \in BOOLEAN :
        /\ WriteLog(OpDrop(op[t].table), ok)
        /\ WriteReturn(t, IF ok THEN Ok(0) ELSE Err("IoError"))
    /\ ReleaseWrite
    /\ UNCHANGED <<store, auto_save, next_row_id, budget>>

\* --------------------------------------------------- insert, batch_insert
\* insert returns r to its caller: the facade's caller, or batch_insert, which
\* stops at the first error and goes on to its next row otherwise.
InsertReturns(t, r) ==
    /\ ReleaseWrite
    /\ IF op[t].kind = "batch_insert" /\ r.err = "Ok" /\ loc[t].i < Len(op[t].rows)
       THEN /\ pc' = [pc EXCEPT ![t] = "batch_next"]
            /\ loc' = [loc EXCEPT ![t].i = @ + 1]
            /\ clean' = (clean /\ auto_save)
            /\ UNCHANGED <<op, res, pre>>
       ELSE WriteReturn(t, IF op[t].kind = "batch_insert" /\ r.err = "Ok"
                           THEN Ok(Len(op[t].rows)) ELSE r)

InsertCall(t) ==
    \E name \in TableNames, data \in RowInputs :
        /\ Begin(t, [kind |-> "insert", table |-> name,
                     row |-> RowSetAll(RowNew(next_row_id), data)])
        /\ next_row_id' = next_row_id + 1
        /\ Request(t, "write", "insert")

InsertApply(t) ==
    /\ pc[t] = "insert"
    /\ LET r == insert_row(store, op[t].table, op[t].row) IN
       /\ store' = r.st
       /\ IF r.err # "Ok" \/ ~auto_save
          THEN InsertReturns(t, [err |-> r.err, val |-> op[t].row.id, rows |-> <<>>])
          ELSE /\ pc' = [pc EXCEPT ![t] = "insert_log"]
               /\ Continue(t)
               /\ UNCHANGED <<lock, loc>>
    /\ UNCHANGED <<disk, auto_save, next_row_id, budget, backup_dir>>

InsertLog(t) ==
    /\ pc[t] = "insert_log"
    /\ \E ok \in BOOLEAN :
        /\ WriteLog(OpInsert(op[t].table, op[t].row), ok)
        /\ InsertReturns(t, IF ok THEN Ok(op[t].row.id) ELSE Err("IoError"))
    /\ UNCHANGED <<store, auto_save, next_row_id, budget, backup_dir>>

BatchInsertCall(t) ==
    \E name \in TableNames, rows \in BatchInputs :
        /\ pc[t] = "idle"
        /\ budget >= Len(rows)
        /\ budget' = budget - Len(rows)
        /\ op' = [op EXCEPT ![t] = [kind |-> "batch_insert", table |-> name,
                                    rows |-> rows, row |-> RowNew(0)]]
        /\ res' = [res EXCEPT ![t] = NoRes]
        /\ loc' = [loc EXCEPT ![t] = [NoLoc EXCEPT !.i = 1]]
        /\ pc' = [pc EXCEPT ![t] = "batch_next"]
        /\ pre' = [pre EXCEPT ![t] = [present |-> TRUE, store |-> store,
                                      log_file |-> log_file]]
        /\ UNCHANGED <<store, disk, auto_save, lock, next_row_id, clean, backup_dir>>

\* self.insert(table_name, row_data).await for the next row of the batch.
BatchInsertNext(t) ==
    /\ pc[t] = "batch_next"
    /\ op' = [op EXCEPT ![t].row =
                 RowSetAll(RowNew(next_row_id), op[t].rows[loc[t].i])]
    /\ next_row_id' = next_row_id + 1
    /\ Request(t, "write", "insert")
    /\ UNCHANGED <<store, disk, auto_save, loc, res, pre, budget, clean, backup_dir>>

\* --------------------------------------------------------------- update
\* The in-place loop of update over table.rows.
UpdateRows(rows, conditions, updates) ==
    [k \in 1..Len(rows) |->
        IF Matches(conditions, rows[k]) THEN RowSetAll(rows[k], updates)
        ELSE rows[k]]

\* The rows the logging loop of update writes an entry for, from index i on:
\* those that match the conditions when the loop reads them.
UpdateLogged(rows, conditions, i) ==
    {k \in i..Len(rows) : Matches(conditions, rows[k])}

Min(S) == CHOOSE x \in S : \A y \in S : x <= y

UpdateCall(t) ==
    \E name \in TableNames, conditions \in CondInputs, updates \in UpdateInputs :
        /\ Begin(t, [kind |-> "update", table |-> name,
                     conditions |-> conditions, updates |-> updates])
        /\ Request(t, "write", "update")
        /\ UNCHANGED next_row_id

UpdateApply(t) ==
    /\ pc[t] = "update"
    /\ IF op[t].table \notin DOMAIN store
       THEN /\ WriteReturn(t, Err("TableNotFound"))
            /\ ReleaseWrite
            /\ UNCHANGED store
       ELSE LET rows == store[op[t].table].rows
                affected_count ==
                    Cardinality({k \in 1..Len(rows) :
                                    Matches(op[t].conditions, rows[k])})
                updated == UpdateRows(rows, op[t].conditions, op[t].updates)
            IN  /\ store' = [store EXCEPT ![op[t].table].rows = updated]
                /\ IF /\ auto_save /\ affected_count > 0
                      /\ UpdateLogged(updated, op[t].conditions, 1) # {}
                   THEN /\ pc' = [pc EXCEPT ![t] = "update_log"]
                        /\ loc' = [loc EXCEPT ![t] =
                                     [NoLoc EXCEPT !.i = 1, !.n = affected_count]]
                        /\ Remember(t)
                        /\ UNCHANGED lock
                   ELSE /\ WriteReturn(t, Ok(affected_count))
                        /\ ReleaseWrite
    /\ UNCHANGED <<disk, auto_save, next_row_id, budget>>

\* One write_log of the logging loop; the call returns after the last one.
UpdateLog(t) ==
    /\ pc[t] = "update_log"
    /\ LET rows == store[op[t].table].rows
           k == Min(UpdateLogged(rows, op[t].conditions, loc[t].i))
       IN  \E ok \in BOOLEAN :
            /\ WriteLog(OpUpdate(op[t].table, UuidToString(rows[k].id),
                                 op[t].updates), ok)
            /\ IF ~ok
               THEN WriteReturn(t, Err("IoError")) /\ ReleaseWrite
               ELSE IF UpdateLogged(rows, op[t].conditions, k + 1) = {}
                    THEN WriteReturn(t, Ok(loc[t].n)) /\ ReleaseWrite
                    ELSE /\ loc' = [loc EXCEPT ![t].i = k + 1]
                         /\ Continue(t)
                         /\ UNCHANGED <<pc, lock>>
    /\ UNCHANGED <<store, auto_save, next_row_id, budget>>

\* --------------------------------------------------------------- delete
\* A scan that takes the rows matching some condition.
RowsToDeleteAny(rows, conditions) ==
    LET hit == SelectSeq(rows, LAMBDA r :
                   \E i \in 1..Len(conditions) : Matches(<<conditions[i]>>, r))
    IN  [k \in 1..Len(hit) |-> hit[k].id]

\* rows_to_delete: the ids of the matching rows, in table order.
RowsToDelete(rows, conditions) ==
    LET hit == SelectSeq(rows, LAMBDA r : Matches(conditions, r))
    IN  [k \in 1..Len(hit) |-> hit[k].id]

DeleteCall(t) ==
    \E name \in TableNames, conditions \in CondInputs :
        /\ Begin(t, [kind |-> "delete", table |-> name, conditions |-> conditions])
        /\ Request(t, "write", "delete")
        /\ UNCHANGED next_row_id

DeleteScan(t) ==
    /\ pc[t] = "delete"
    /\ IF op[t].table \notin DOMAIN store
       THEN WriteReturn(t, Err("TableNotFound")) /\ ReleaseWrite
       ELSE LET ids == RowsToDelete(store[op[t].table].rows, op[t].conditions) IN
            IF ids = <<>>
            THEN WriteReturn(t, Ok(0)) /\ ReleaseWrite
            ELSE /\ pc' = [pc EXCEPT ![t] = "delete_row"]
                 /\ loc' = [loc EXCEPT ![t] =
                              [NoLoc EXCEPT !.ids = ids, !.n = Len(ids)]]
                 /\ Remember(t)
                 /\ UNCHANGED lock
    /\ UNCHANGED <<store, disk, auto_save, next_row_id, budget>>

DeleteRow(t) ==
    /\ pc[t] = "delete_row"
    /\ LET r == delete_row(store, op[t].table, Head(loc[t].ids)) IN
       /\ store' = r.st
       /\ IF r.err # "Ok"
          THEN WriteReturn(t, Err(r.err)) /\ ReleaseWrite
          ELSE IF auto_save
               THEN /\ pc' = [pc EXCEPT ![t] = "delete_log"]
                    /\ Continue(t)
                    /\ UNCHANGED <<lock, loc>>
               ELSE IF Len(loc[t].ids) = 1
                    THEN WriteReturn(t, Ok(loc[t].n)) /\ ReleaseWrite
                    ELSE /\ loc' = [loc EXCEPT ![t].ids = Tail(@)]
                         /\ Continue(t)
                         /\ UNCHANGED <<pc, lock>>
    /\ UNCHANGED <<disk, auto_save, next_row_id, budget>>

DeleteLog(t) ==
    /\ pc[t] = "delete_log"
    /\ \E ok \in BOOLEAN :
        /\ WriteLog(OpDelete(op[t].table, UuidToString(Head(loc[t].ids))), ok)
        /\ IF ~ok
           THEN WriteReturn(t, Err("IoError")) /\ ReleaseWrite
           ELSE IF Len(loc[t].ids) = 1
                THEN WriteReturn(t, Ok(loc[t].n)) /\ ReleaseWrite
                ELSE /\ pc' = [pc EXCEPT ![t] = "delete_row"]
                     /\ loc' = [loc EXCEPT ![t].ids = Tail(@)]
                     /\ Continue(t)
                     /\ UNCHANGED lock
    /\ UNCHANGED <<store, auto_save, next_row_id, budget>>

\* ---------------------------------------------------------------- query
\* Query.data: Option<HashMap<String, Value>>.
NoData == [some |-> FALSE]
SomeData(data) == [some |-> TRUE, value |-> data]

\* An execute whose Update and Delete count every row of the table.
execute_counting_all(table, query) ==
    IF query.query_type \in {"Update", "Delete"} THEN Ok(Len(table.rows))
    ELSE Ok(0)

\* QueryEngine::execute on a clone of the table: Select keeps the rows that
\* match, Count / Update / Delete count them, Insert answers 1 when the query
\* carries data; val is affected_rows.
execute(table, query) ==
    LET hit == SelectSeq(table.rows, LAMBDA r : Matches(query.conditions, r)) IN
    IF query.query_type = "Select"
    THEN [err |-> "Ok", val |-> Len(hit), rows |-> hit]
    ELSE IF query.query_type = "Insert"
         THEN IF query.data.some THEN Ok(1) ELSE Err("Other")
         ELSE Ok(Len(hit))

Query(query_type, conditions) ==
    [query_type |-> query_type, conditions |-> conditions, data |-> NoData]
WithData(q, data) == [q EXCEPT !.data = SomeData(data)]
\* The queries callers run.
QueryInputs ==
    {Query("Select", <<>>), Query("Count", <<Condition("v", "Equal", I1)>>),
     WithData(Query("Insert", <<>>), [v |-> I1]), Query("Insert", <<>>),
     WithData(Query("Update", <<Condition("v", "Equal", I1)>>), [v |-> I2]),
     Query("Delete", <<Condition("v", "Equal", I1)>>)}

\* DatabaseEngine::query under its read guard.
query(storage, table_name, q) ==
    IF table_name \notin DOMAIN storage THEN Err("TableNotFound")
    ELSE execute(storage[table_name], q)

\* A caller runs one of the queries.
QueryCallWith(t, queries) ==
    \E name \in TableNames, q \in queries :
        /\ Begin(t, [kind |-> "query", table |-> name, query |-> q])
        /\ Request(t, "read", "query")
        /\ UNCHANGED next_row_id

QueryCall(t) == QueryCallWith(t, QueryInputs)

QueryExec(t) ==
    /\ pc[t] = "query"
    /\ Return(t, query(store, op[t].table, op[t].query))
    /\ ReleaseRead(t)
    /\ UNCHANGED <<store, disk, auto_save, next_row_id, budget, clean>>

\* ------------------------------------------------------- get_table_info
GetTableInfoCall(t) ==
    \E name \in TableNames :
        /\ Begin(t, [kind |-> "get_table_info", table |-> name])
        /\ Request(t, "read", "get_table_info")
        /\ UNCHANGED next_row_id

\* The TableInfo returned holds the row count.
GetTableInfo(t) ==
    /\ pc[t] = "get_table_info"
    /\ Return(t, IF op[t].table \notin DOMAIN store THEN Err("TableNotFound")
                 ELSE Ok(Len(store[op[t].table].rows)))
    /\ ReleaseRead(t)
    /\ UNCHANGED <<store, disk, auto_save, next_row_id, budget, clean>>

\* ------------------------------------------------------- truncate_table
TruncateCall(t) ==
    \E name \in TableNames :
        /\ Begin(t, [kind |-> "truncate_table", table |-> name,
                     query |-> Query("Delete", <<>>)])
        /\ Request(t, "read", "truncate_table")
        /\ UNCHANGED next_row_id

\* get_table, then self.query(query).await while the read guard is held.
TruncateGet(t) ==
    /\ pc[t] = "truncate_table"
    /\ IF op[t].table \notin DOMAIN store
       THEN Return(t, Err("TableNotFound")) /\ ReleaseRead(t)
       ELSE /\ Request(t, "read", "truncate_query")
            /\ UNCHANGED <<op, res, pre, loc>>
    /\ UNCHANGED <<store, disk, auto_save, next_row_id, budget, clean, backup_dir>>

\* The nested query runs and both read guards are dropped.
TruncateQuery(t) ==
    /\ pc[t] = "truncate_query"
    /\ Return(t, query(store, op[t].table, op[t].query))
    /\ readers' = [readers EXCEPT ![t] = @ - 2]
    /\ UNCHANGED <<writer, queue>>
    /\ UNCHANGED <<store, disk, auto_save, next_row_id, budget, clean>>

\* --------------------------------------------------------- save_to_disk
SaveToDiskCall(t) ==
    /\ Begin(t, [kind |-> "save_to_disk"])
    /\ Request(t, "read", "save_to_disk")
    /\ UNCHANGED next_row_id

\* get_all_data and create_snapshot under the read guard; when commit called
\* save_to_disk, commit returns next and drops its write guard.
SaveToDiskSnapshot(t) ==
    /\ pc[t] = "save_to_disk"
    /\ snapshot_file' = create_snapshot(get_all_data(store), current_log_id)
    /\ Return(t, Ok(0))
    /\ readers' = [readers EXCEPT ![t] = @ - 1]
    /\ writer' = IF writer = t THEN NoTask ELSE writer
    /\ UNCHANGED <<store, log_file, current_log_id, faults, auto_save, queue,
                   next_row_id, budget, clean>>

\* ------------------------------------------------------- backup, restore
\* StorageEngine::backup: each file that exists is copied into the directory.
\* A log file exists once it holds a line.
backup(dir, file, snapshot) ==
    [log_file |-> IF file # <<>> THEN file ELSE dir.log_file,
     snapshot_file |-> IF snapshot.present THEN snapshot ELSE dir.snapshot_file]

\* StorageEngine::restore: each file the directory holds is copied back.
restore(dir, file, snapshot) ==
    [log_file |-> IF dir.log_file # <<>> THEN dir.log_file ELSE file,
     snapshot_file |-> IF dir.snapshot_file.present THEN dir.snapshot_file
                       ELSE snapshot]

\* DatabaseEngine::backup awaits save_to_disk.
BackupCall(t) ==
    /\ Begin(t, [kind |-> "backup"])
    /\ Request(t, "read", "backup_save")
    /\ UNCHANGED next_row_id

\* save_to_disk under the read guard, then the copy of the two files.
BackupSave(t) ==
    /\ pc[t] = "backup_save"
    /\ snapshot_file' = create_snapshot(get_all_data(store), current_log_id)
    /\ backup_dir' = backup(backup_dir, log_file, snapshot_file')
    /\ ReleaseRead(t)
    /\ pc' = [pc EXCEPT ![t] = "idle"]
    /\ res' = [res EXCEPT ![t] = [kind |-> "backup", err |-> "Ok", val |-> 0,
                                 rows |-> <<>>]]
    /\ op' = [op EXCEPT ![t] = NoOp]
    /\ UNCHANGED <<store, log_file, current_log_id, faults, auto_save, loc, pre,
                   next_row_id, budget, clean>>

\* DatabaseEngine::restore up to storage.write().await: the files are copied
\* back and the whole log is read.
RestoreCall(t) ==
    /\ pc[t] = "idle"
    /\ budget > 0
    /\ budget' = budget - 1
    /\ LET r == restore(backup_dir, log_file, snapshot_file) IN
       /\ log_file' = r.log_file
       /\ snapshot_file' = r.snapshot_file
       /\ op' = [op EXCEPT ![t] =
                    [kind |-> "restore", logs |-> replay_logs(r.log_file, 0)]]
    /\ res' = [res EXCEPT ![t] = NoRes]
    /\ Request(t, "write", "restore_apply")
    /\ UNCHANGED <<store, current_log_id, faults, auto_save, loc, pre,
                   next_row_id, clean, backup_dir>>

\* Under the write guard every table is dropped and the log operations are
\* applied in order; the first failure is returned.
RestoreApply(t) ==
    /\ pc[t] = "restore_apply"
    /\ LET r == ApplyAll(MemoryStorageNew, Operations(op[t].logs)) IN
       /\ store' = r.st
       /\ Return(t, IF r.err = "Ok" THEN Ok(0) ELSE Err(r.err))
    /\ ReleaseWrite
    /\ clean' = FALSE
    /\ UNCHANGED <<disk, auto_save, next_row_id, budget>>

\* -------------------------------------------------------- load_from_disk
\* The tables load_from_disk creates from a snapshot.
SnapshotTables(snapshot) ==
    IF snapshot.present
    THEN [n \in {tb.name : tb \in snapshot.tables} |->
             TableNew(n, (CHOOSE tb \in snapshot.tables : tb.name = n).schema)]
    ELSE MemoryStorageNew

\* DatabaseEngine::load_from_disk over the two files: [err, st].
load_from_disk(snapshot, file) ==
    LET last_log_id == IF snapshot.present THEN snapshot.last_log_id ELSE 0
        logs == replay_logs(file, last_log_id)
        r == ApplyAll(SnapshotTables(snapshot), Operations(logs))
    IN  [err |-> r.err, st |-> r.st]

\* The caller replaces its engine by the loaded one (a fresh engine: lock
\* free, current_log_id = 0, auto_save on); on an error it keeps its engine.
LoadFromDisk(t) ==
    /\ \A u \in Tasks : pc[u] = "idle"
    /\ budget > 0
    /\ budget' = budget - 1
    /\ LET r == load_from_disk(snapshot_file, log_file) IN
       /\ res' = [res EXCEPT ![t] = [kind |-> "load_from_disk", err |-> r.err,
                                     val |-> 0, rows |-> <<>>]]
       /\ IF r.err = "Ok"
          THEN /\ store' = r.st
               /\ current_log_id' = 0
               /\ auto_save' = TRUE
          ELSE UNCHANGED <<store, current_log_id, auto_save>>
    /\ clean' = FALSE
    /\ UNCHANGED <<log_file, snapshot_file, faults, lock, pc, op, loc, pre,
                   next_row_id, backup_dir>>

\* set_auto_save(false); it takes &mut self, so no call is in progress.
SetAutoSave(t) ==
    /\ \A u \in Tasks : pc[u] = "idle"
    /\ auto_save
    /\ auto_save' = FALSE
    /\ UNCHANGED <<store, disk, lock, pc, op, loc, res, pre, next_row_id, budget,
                   clean, backup_dir>>

\* ----------------------------------------------------------- transaction
TransactionCall(t) ==
    /\ pc[t] = "idle"
    /\ op' = [op EXCEPT ![t] = [kind |-> "transaction", operations |-> <<>>]]
    /\ res' = [res EXCEPT ![t] = NoRes]
    /\ pc' = [pc EXCEPT ![t] = "tx_body"]
    /\ pre' = [pre EXCEPT ![t] = [present |-> TRUE, store |-> store,
                                  log_file |-> log_file]]
    /\ clean' = FALSE
    /\ UNCHANGED <<store, disk, auto_save, lock, loc, next_row_id, budget, backup_dir>>

\* A statement of the body that would act on the store at once.
BufferApplied(t, operation) ==
    /\ pc[t] = "tx_body"
    /\ Len(op[t].operations) < MaxBatch
    /\ budget > 0
    /\ budget' = budget - 1
    /\ op' = [op EXCEPT ![t].operations = Append(@, operation)]
    /\ store' = apply_log_operation(store, operation).st
    /\ UNCHANGED <<disk, auto_save, lock, pc, loc, res, pre, clean, backup_dir>>

\* A statement of the body: push one StorageOperation.
Buffer(t, operation) ==
    /\ pc[t] = "tx_body"
    /\ Len(op[t].operations) < MaxBatch
    /\ budget > 0
    /\ budget' = budget - 1
    /\ op' = [op EXCEPT ![t].operations = Append(@, operation)]
    /\ store' = store
    /\ UNCHANGED <<disk, auto_save, lock, pc, loc, res, pre, clean, backup_dir>>

TxCreateTable(t) ==
    \E name \in TableNames, schema \in Schemas :
        Buffer(t, OpCreate(name, schema)) /\ UNCHANGED next_row_id

TxInsert(t) ==
    \E name \in TableNames, data \in RowInputs :
        /\ Buffer(t, OpInsert(name, RowSetAll(RowNew(next_row_id), data)))
        /\ next_row_id' = next_row_id + 1

TxUpdate(t) ==
    \E name \in TableNames, id \in 1..(next_row_id - 1), updates \in UpdateInputs :
        Buffer(t, OpUpdate(name, UuidToString(id), updates)) /\ UNCHANGED next_row_id

TxDelete(t) ==
    \E name \in TableNames, id \in 1..(next_row_id - 1) :
        Buffer(t, OpDelete(name, UuidToString(id))) /\ UNCHANGED next_row_id

\* The body returns an error of its own: transaction() returns it.
TxBodyErr(t) ==
    /\ pc[t] = "tx_body"
    /\ Return(t, Err("Other"))
    /\ UNCHANGED <<store, disk, auto_save, lock, next_row_id, budget, clean>>

\* The body returns Ok: commit() asks for the write guard.
TxBodyOk(t) ==
    /\ pc[t] = "tx_body"
    /\ Request(t, "write", "commit")
    /\ loc' = [loc EXCEPT ![t] = [NoLoc EXCEPT !.i = 1]]
    /\ UNCHANGED <<store, disk, auto_save, op, res, pre, next_row_id, budget, clean, backup_dir>>

\* apply_log_operation for the next buffered operation.
CommitApply(t) ==
    /\ pc[t] = "commit"
    /\ loc[t].i <= Len(op[t].operations)
    /\ LET r == apply_log_operation(store, op[t].operations[loc[t].i]) IN
       /\ store' = r.st
       /\ IF r.err # "Ok"
          THEN WriteReturn(t, Err(r.err)) /\ ReleaseWrite
          ELSE /\ pre' = [pre EXCEPT ![t] =
                            IF loc[t].i = 1
                            THEN [present |-> TRUE, store |-> store,
                                  log_file |-> log_file]
                            ELSE @]
               /\ IF auto_save
                  THEN /\ pc' = [pc EXCEPT ![t] = "commit_log"]
                       /\ UNCHANGED loc
                  ELSE /\ loc' = [loc EXCEPT ![t].i = @ + 1]
                       /\ UNCHANGED pc
               /\ UNCHANGED <<lock, op, res, clean>>
    /\ UNCHANGED <<disk, auto_save, next_row_id, budget, backup_dir>>

\* A commit loop that would skip write_log.
CommitLogDropped(t) ==
    /\ pc[t] = "commit_log"
    /\ pc' = [pc EXCEPT ![t] = "commit"]
    /\ loc' = [loc EXCEPT ![t].i = @ + 1]
    /\ Continue(t)
    /\ UNCHANGED <<store, disk, lock, auto_save, next_row_id, budget>>

\* self.engine.disk_storage.lock().unwrap().write_log(op.clone())?
CommitLog(t) ==
    /\ pc[t] = "commit_log"
    /\ \E ok \in BOOLEAN :
        /\ WriteLog(op[t].operations[loc[t].i], ok)
        /\ IF ok
           THEN /\ pc' = [pc EXCEPT ![t] = "commit"]
                /\ loc' = [loc EXCEPT ![t].i = @ + 1]
                /\ Continue(t)
                /\ UNCHANGED lock
           ELSE WriteReturn(t, Err("IoError")) /\ ReleaseWrite
    /\ UNCHANGED <<store, auto_save, next_row_id, budget>>

\* After the loop: with auto-save, self.engine.save_to_disk().await, which asks
\* for a read guard while `storage`, the write guard, is still in scope.
CommitEnd(t) ==
    /\ pc[t] = "commit"
    /\ loc[t].i > Len(op[t].operations)
    /\ IF auto_save
       THEN /\ Request(t, "read", "save_to_disk")
            /\ UNCHANGED <<op, res, pre, loc, clean>>
       ELSE WriteReturn(t, Ok(0)) /\ ReleaseWrite
    /\ UNCHANGED <<store, disk, auto_save, next_row_id, budget, backup_dir>>

\* The calls a task can begin.
Call(t) ==
    \/ CreateTableCall(t)
    \/ DropTableCall(t)
    \/ InsertCall(t)
    \/ BatchInsertCall(t)
    \/ UpdateCall(t)
    \/ DeleteCall(t)
    \/ QueryCall(t)
    \/ GetTableInfoCall(t)
    \/ TruncateCall(t)
    \/ SaveToDiskCall(t)
    \/ LoadFromDisk(t)
    \/ SetAutoSave(t)
    \/ TransactionCall(t)

\* The steps of a call in progress.
Body(t) ==
    \/ CreateTableApply(t)
    \/ CreateTableLog(t)
    \/ DropTableApply(t)
    \/ DropTableLog(t)
    \/ InsertApply(t)
    \/ InsertLog(t)
    \/ BatchInsertNext(t)
    \/ UpdateApply(t)
    \/ UpdateLog(t)
    \/ DeleteScan(t)
    \/ DeleteRow(t)
    \/ DeleteLog(t)
    \/ QueryExec(t)
    \/ TruncateGet(t)
    \/ TruncateQuery(t)
    \/ SaveToDiskSnapshot(t)
    \/ TxCreateTable(t)
    \/ TxInsert(t)
    \/ TxUpdate(t)
    \/ TxDelete(t)
    \/ TxBodyErr(t)
    \/ TxBodyOk(t)
    \/ CommitApply(t)
    \/ CommitLog(t)
    \/ CommitEnd(t)
    \/ GetTableInfo(t)

\* One caller: every call runs to its end before the next begins.
Next == Call(1) \/ Body(1)

Spec == Init /\ [][Next]_vars

\* Concurrent tasks on one engine.
NextConc == \E t \in Tasks : Grant(t) \/ Call(t) \/ Body(t)

InitConc == InitWith(MaxConcOps)

SpecConc == InitConc /\ [][NextConc]_vars

\* One task that also backs up and restores.
NextBackup ==
    \/ Call(1)
    \/ Body(1)
    \/ BackupCall(1)
    \/ BackupSave(1)
    \/ RestoreCall(1)
    \/ RestoreApply(1)

SpecBackup == Init /\ [][NextBackup]_vars

\* ================================================================ properties
AllIdle == \A t \in Tasks : pc[t] = "idle"

\* The rows of a table as a set of (id, data) pairs with their multiplicity.
RowCount(rows, row) == Cardinality({k \in 1..Len(rows) : rows[k] = row})
SameRows(a, b) ==
    /\ Len(a) = Len(b)
    /\ \A k \in 1..Len(a) : RowCount(a, a[k]) = RowCount(b, a[k])

\* The rows of a table as a multiset of contents, whatever their ids.
DataCount(rows, data) == Cardinality({k \in 1..Len(rows) : rows[k].data = data})
SameRowData(a, b) ==
    /\ Len(a) = Len(b)
    /\ \A k \in 1..Len(a) : DataCount(a, a[k].data) = DataCount(b, a[k].data)

\* Two stores hold the same tables and, per table, the same rows.
SameTablesAndRows(a, b) ==
    /\ DOMAIN a = DOMAIN b
    /\ \A n \in DOMAIN a :
          a[n].schema = b[n].schema /\ SameRows(a[n].rows, b[n].rows)

\* Two stores hold the same tables and, per table, the same row contents.
SameTablesAndData(a, b) ==
    /\ DOMAIN a = DOMAIN b
    /\ \A n \in DOMAIN a :
          a[n].schema = b[n].schema /\ SameRowData(a[n].rows, b[n].rows)

\* Task t is about to run Table::insert with a row that passes validate_row
\* and repeats, in a column flagged unique or primary-key, the non-null value
\* of an existing row.
InsertsDuplicate(t) ==
    /\ pc[t] = "insert"
    /\ op[t].table \in DOMAIN store
    /\ LET table == store[op[t].table] IN
       /\ validate_row(table.schema, op[t].row) = "Ok"
       /\ \E i \in 1..Len(table.schema), k \in 1..Len(table.rows) :
             /\ table.schema[i].unique \/ table.schema[i].primary_key
             /\ LET v == RowGet(op[t].row, table.schema[i].name) IN
                /\ v # NoValue
                /\ ~is_null(v)
                /\ v = RowGet(table.rows[k], table.schema[i].name)

\* C1: an insert whose row repeats, in a column flagged unique or primary-key,
\* the non-null value of an existing row fails with UniqueViolation and leaves
\* the store as it was.
C1_DuplicateRejected ==
    [][\A t \in Tasks :
          (InsertsDuplicate(t) /\ pc'[t] # pc[t])
              => (res'[t].err = "UniqueViolation" /\ store' = store)]_vars

\* The store that the recovery routine builds from the whole log.
Replayed == ApplyAll(MemoryStorageNew, Operations(replay_logs(log_file, 0)))

\* C2: with auto-save, after successful facade writes only, replaying the log
\* from id 0 into an empty store gives the tables and rows of the live store.
C2_ReplayEqualsStore ==
    (clean /\ AllIdle)
        => (Replayed.err = "Ok" /\ SameTablesAndRows(Replayed.st, store))

\* C3: recovering from a snapshot of the store just taken and an empty log
\* gives the same tables with the same row contents.
C3_SnapshotRoundTrip ==
    [][\A t \in Tasks :
          (/\ log_file = <<>>
           /\ snapshot_file.present
           /\ snapshot_file.tables = get_all_data(store)
           /\ LoadFromDisk(t))
              => (res'[t].err = "Ok" /\ SameTablesAndData(store', store))]_vars

\* C4: after auto-saved writes with a save_to_disk among them, load_from_disk
\* builds a store equal to the live store.
C4_LoadEqualsStore ==
    [][\A t \in Tasks :
          (clean /\ snapshot_file.present /\ LoadFromDisk(t))
              => (res'[t].err = "Ok" /\ SameTablesAndRows(store', store))]_vars

\* Task t, in the body of its transaction, takes a step.
TxBodyStep(t) ==
    /\ pc[t] = "tx_body"
    /\ op'[t] # op[t] \/ pc'[t] # pc[t]

\* C5: a statement of a transaction's body only grows the buffer, store and
\* log stay as they are; when the body returns an error, transaction() returns
\* it without any step of commit, store and log being as they were at the call.
C5_BufferOnly ==
    [][\A t \in Tasks :
          TxBodyStep(t) =>
              /\ store' = store
              /\ log_file' = log_file
              /\ current_log_id' = current_log_id
              /\ pc'[t] = "idle" =>
                    /\ res'[t].err = "Other"
                    /\ store' = pre[t].store
                    /\ log_file' = pre[t].log_file]_vars

\* An insert is buffered for an existing table, which stays empty.
C5_Witness ==
    /\ pc[1] = "tx_body"
    /\ Len(op[1].operations) = 2
    /\ op[1].operations[2].kind = "Insert"
    /\ op[1].operations[2].table \in DOMAIN store
    /\ store[op[1].operations[2].table].rows = <<>>
    /\ validate_row(store[op[1].operations[2].table].schema,
                    op[1].operations[2].row) = "Ok"

\* The loop of commit is over: every buffered operation was applied (and, with
\* auto-save, logged) without error.
CommitLoopDone(t) ==
    /\ op[t].kind = "transaction"
    /\ pc[t] = "commit"
    /\ loc[t].i > Len(op[t].operations)

\* The log is the log before the batch followed by one entry per operation.
LogGained(before, operations) ==
    /\ Len(log_file) = Len(before) + Len(operations)
    /\ SubSeq(log_file, 1, Len(before)) = before
    /\ Operations(SubSeq(log_file, Len(before) + 1, Len(log_file))) = operations

\* C6: when every buffered operation applied without error, the store is the
\* pre-commit store with the operations applied in the order issued, and with
\* auto-save the log gained exactly those operations in that order.
C6_CommitAppliesAll ==
    \A t \in Tasks :
        CommitLoopDone(t) =>
            LET r == ApplyAll(pre[t].store, op[t].operations) IN
            /\ r.err = "Ok"
            /\ store = r.st
            /\ LogGained(pre[t].log_file,
                         IF auto_save THEN op[t].operations ELSE <<>>)

\* A commit of two operations under auto-save has finished its loop.
C6_Witness ==
    /\ CommitLoopDone(1)
    /\ auto_save
    /\ Len(op[1].operations) = 2
    /\ op[1].operations[2].kind = "Insert"

\* The elements of the write batch of task t, as operations.
Elements(t) ==
    IF op[t].kind = "transaction" THEN op[t].operations
    ELSE [j \in 1..Len(op[t].rows) |->
             OpInsert(op[t].table, RowSetAll(RowNew(0), op[t].rows[j]))]

\* Two operations are the same up to the id given to an inserted row.
SameOperation(a, b) ==
    /\ a.kind = b.kind
    /\ a.table = b.table
    /\ a.kind = "Insert" => a.row.data = b.row.data
    /\ a.kind # "Insert" => a = b

\* The write batch of task t returns the error of its element loc[t].i.
BatchFails(t) ==
    /\ op[t].kind \in {"transaction", "batch_insert"}
    /\ pc[t] \in {"commit", "commit_log", "insert", "insert_log"}
    /\ pc'[t] = "idle"
    /\ res'[t].err # "Ok"

\* Store and log after the step are those before the batch with the elements
\* before the k-th applied and, with auto-save, logged.
OnlyPrefixDone(t, k) ==
    LET prefix == SubSeq(Elements(t), 1, k - 1)
        logged == SubSeq(log_file', Len(pre[t].log_file) + 1, Len(log_file'))
    IN  /\ SameTablesAndData(store', ApplyAll(pre[t].store, prefix).st)
        /\ SubSeq(log_file', 1, Len(pre[t].log_file)) = pre[t].log_file
        /\ Len(logged) = IF auto_save THEN k - 1 ELSE 0
        /\ \A j \in 1..Len(logged) :
              SameOperation(logged[j].operation, prefix[j])

\* C7: when the k-th element of a write batch fails, the call returns that
\* error, elements 1..k-1 stay applied and logged, and elements k..n are
\* neither applied nor logged.
C7_BatchStopsAtFailure ==
    [][\A t \in Tasks : BatchFails(t) => OnlyPrefixDone(t, loc[t].i)]_vars

\* Task t waits for the store lock.
Queued(t) == \E j \in 1..Len(queue) : queue[j].task = t

\* C8: commit never asks for the store lock while it holds it.
C8_NoRequestWhileHolding ==
    \A t \in Tasks :
        op[t].kind = "transaction" => ~(writer = t /\ Queued(t))

\* The tasks holding the store lock.
Holders == {u \in Tasks : writer = u \/ readers[u] > 0}

\* Tasks wait for the store lock while every holder of it waits for it too:
\* no holder will release, nobody will be served.
Stuck ==
    /\ queue # <<>>
    /\ Holders # {}
    /\ \A u \in Holders : Queued(u)

\* C9: no reachable state has a task blocked forever on the store lock.
C9_NoTaskBlockedForever == ~Stuck

\* truncate_table waits for its second read guard behind a waiting writer.
C9_TruncateStuck ==
    \E t \in Tasks :
        /\ op[t].kind = "truncate_table"
        /\ readers[t] = 1
        /\ Queued(t)
        /\ Stuck

\* Task t holds the write guard of its commit.
InCommit(t) ==
    /\ op[t].kind = "transaction"
    /\ writer = t

WriteLogStep == log_file' # log_file \/ faults' # faults

\* C11: every write_log of an engine takes the id after the last one it
\* assigned, whether its append succeeds or fails, and an appended entry
\* carries that id: ids grow strictly and none is assigned twice.
C11_LogIdsIncrease ==
    [][WriteLogStep =>
          /\ current_log_id' = current_log_id + 1
          /\ log_file' # log_file =>
                /\ Len(log_file') = Len(log_file) + 1
                /\ SubSeq(log_file', 1, Len(log_file)) = log_file
                /\ log_file'[Len(log_file')].id = current_log_id']_vars

\* Two tasks wrote, one append failed in between: the log holds ids 1 and 3.
C11_Witness ==
    /\ Len(log_file) = 2
    /\ log_file[1].id = 1
    /\ log_file[2].id = 3
    /\ faults = 1
    /\ \A t \in Tasks : res[t].kind \in {"create_table", "insert"}

\* The tables of a snapshot as a store.
SnapshotStore(snapshot) ==
    [n \in {tb.name : tb \in snapshot.tables} |->
        CHOOSE tb \in snapshot.tables : tb.name = n]

\* The store that the logged operations with id <= last_log_id build.
ReplayedUpTo(last_log_id) ==
    ApplyAll(MemoryStorageNew,
             Operations(SelectSeq(log_file, LAMBDA e : e.id <= last_log_id)))

\* C12: a snapshot written by save_to_disk records the highest id issued so
\* far, no entry of the log has a greater id, and after auto-saved writes its
\* tables are those built by the logged operations up to that id.
C12_SnapshotMatchesWatermark ==
    [][\A t \in Tasks :
          SaveToDiskSnapshot(t) =>
              /\ snapshot_file'.last_log_id = current_log_id
              /\ \A k \in 1..Len(log_file) :
                    log_file[k].id <= snapshot_file'.last_log_id
              /\ clean =>
                    SameTablesAndRows(
                        SnapshotStore(snapshot_file'),
                        ReplayedUpTo(snapshot_file'.last_log_id).st)]_vars

\* ---------------------------------------------------- replay_logs on its own
\* The lines a log file may hold and the files made of them.
LogLines ==
    {LogEntry(i, OpDrop("t")) : i \in 1..MaxLines} \cup {BlankLine, MalformedLine}
LogFileInputs == UNION {[1..n -> LogLines] : n \in 0..MaxLines}
FromIds == 0..MaxLines

\* An engine over a log file found on disk.
InitReplay ==
    /\ store = MemoryStorageNew
    /\ log_file \in LogFileInputs
    /\ snapshot_file = NoSnapshot
    /\ current_log_id = 0
    /\ auto_save = TRUE
    /\ writer = NoTask
    /\ readers = [t \in Tasks |-> 0]
    /\ queue = <<>>
    /\ pc = [t \in Tasks |-> "idle"]
    /\ op = [t \in Tasks |-> NoOp]
    /\ loc = [t \in Tasks |-> NoLoc]
    /\ res = [t \in Tasks |-> NoRes]
    /\ pre = [t \in Tasks |-> NoPre]
    /\ next_row_id = 1
    /\ budget = 1
    /\ faults = 0
    /\ backup_dir = NoBackup
    /\ clean = TRUE

\* self.disk_storage.lock().unwrap().replay_logs(from_id)
ReplayLogs(t) ==
    \E from_id \in FromIds :
        /\ pc[t] = "idle"
        /\ budget > 0
        /\ budget' = budget - 1
        /\ res' = [res EXCEPT ![t] =
                     [kind |-> "replay_logs", err |-> "Ok", val |-> from_id,
                      rows |-> replay_logs(log_file, from_id)]]
        /\ UNCHANGED <<store, disk, auto_save, lock, pc, op, loc, pre,
                       next_row_id, clean, backup_dir>>

NextReplay == ReplayLogs(1)

SpecReplay == InitReplay /\ [][NextReplay]_vars

\* The number of lines of the file that hold the entry e.
LineCount(file, e) == Cardinality({k \in 1..Len(file) : file[k] = e})

\* The entries returned are exactly the parseable entries of the file with an
\* id greater than from_id, each as often as the file holds it.
ExactlyTheEntriesAbove(entries, file, from_id) ==
    /\ \A k \in 1..Len(entries) :
          /\ entries[k].id > from_id
          /\ LineCount(file, entries[k]) = LineCount(entries, entries[k])
    /\ \A k \in 1..Len(file) :
          (from_str(file[k]).err = "Ok" /\ file[k].id > from_id)
              => \E j \in 1..Len(entries) : entries[j] = file[k]

\* C13: replay_logs(from_id) returns exactly the parseable entries with an id
\* greater than from_id, in ascending id order, whatever the file holds.
C13_ReplayAscending ==
    \A t \in Tasks :
        res[t].kind = "replay_logs" =>
            /\ res[t].err = "Ok"
            /\ ExactlyTheEntriesAbove(res[t].rows, log_file, res[t].val)
            /\ \A j, k \in 1..Len(res[t].rows) :
                  j < k => res[t].rows[j].id <= res[t].rows[k].id

\* C13, but for the order: the entries come in the order of their lines.
C13_ReplayInFileOrder ==
    \A t \in Tasks :
        res[t].kind = "replay_logs" =>
            /\ res[t].err = "Ok"
            /\ ExactlyTheEntriesAbove(res[t].rows, log_file, res[t].val)
            /\ res[t].rows =
                  SelectSeq(log_file, LAMBDA line :
                      line \notin {BlankLine, MalformedLine}
                          /\ line.id > res[t].val)

\* ------------------------------------------------------- backup and restore
\* A backup was taken.
BackedUp == backup_dir.snapshot_file.present

\* C14: restore(p) after backup(p) and any writes leaves the store with the
\* tables and rows it had at the moment of the backup, with auto-save enabled
\* or disabled.
C14_RestoreReturnsBackup ==
    [][\A t \in Tasks :
          (BackedUp /\ RestoreApply(t)) =>
              /\ res'[t].err = "Ok"
              /\ SameTablesAndRows(store', SnapshotStore(backup_dir.snapshot_file))]_vars

\* A restore brought back a table dropped after the backup.
C14_Witness ==
    /\ BackedUp
    /\ res[1].kind = "restore" /\ res[1].err = "Ok"
    /\ current_log_id = 2 /\ Len(log_file) = 1
    /\ "t" \in DOMAIN store
    /\ SameTablesAndRows(store, SnapshotStore(backup_dir.snapshot_file))

\* ---------------------------------------------------- Table::insert on its own
\* id PRIMARY KEY, v NOT NULL.
SchemaNotNull ==
    <<ColumnDefinitionNew("id", TRUE),
      WithNullable(ColumnDefinitionNew("v", FALSE), FALSE)>>
\* id PRIMARY KEY, v NOT NULL DEFAULT 2.
SchemaNotNullDefault ==
    <<ColumnDefinitionNew("id", TRUE),
      WithDefault(WithNullable(ColumnDefinitionNew("v", FALSE), FALSE), I2)>>
\* id PRIMARY KEY, v DEFAULT 2.
SchemaDefault ==
    <<ColumnDefinitionNew("id", TRUE),
      WithDefault(ColumnDefinitionNew("v", FALSE), I2)>>
\* PRIMARY KEY (id, v).
SchemaCompositePk ==
    <<ColumnDefinitionNew("id", TRUE), ColumnDefinitionNew("v", TRUE)>>
TableSchemas ==
    {SchemaNotNull, SchemaNotNullDefault, SchemaDefault, SchemaCompositePk}

\* The column -> value maps inserted.
TableRowInputs ==
    {[id |-> I1], [id |-> I2], [id |-> I1, v |-> I1], [id |-> I2, v |-> Null],
     [v |-> I1]}

\* A store holding one empty table.
InitTable ==
    /\ store \in {[n \in TableNames |-> TableNew(n, schema)] : schema \in TableSchemas}
    /\ log_file = <<>>
    /\ snapshot_file = NoSnapshot
    /\ current_log_id = 0
    /\ auto_save = TRUE
    /\ writer = NoTask
    /\ readers = [t \in Tasks |-> 0]
    /\ queue = <<>>
    /\ pc = [t \in Tasks |-> "idle"]
    /\ op = [t \in Tasks |-> NoOp]
    /\ loc = [t \in Tasks |-> NoLoc]
    /\ res = [t \in Tasks |-> NoRes]
    /\ pre = [t \in Tasks |-> NoPre]
    /\ next_row_id = 1
    /\ budget = MaxInserts
    /\ faults = 0
    /\ backup_dir = NoBackup
    /\ clean = TRUE

\* table.insert(row): the result keeps the row the caller gave.
TableInsertStep(t) ==
    /\ pc[t] = "idle"
    /\ budget > 0
    /\ budget' = budget - 1
    /\ \E data \in TableRowInputs :
          LET row == [id |-> next_row_id, data |-> data]
              r == TableInsert(store["t"], row)
          IN  /\ store' = [store EXCEPT !["t"] = r.table]
              /\ res' = [res EXCEPT ![t] = [kind |-> "table_insert", err |-> r.err,
                                           val |-> 0, rows |-> <<row>>]]
    /\ next_row_id' = next_row_id + 1
    /\ UNCHANGED <<disk, backup_dir, auto_save, lock, pc, op, loc, pre, clean>>

NextTable == TableInsertStep(1)

SpecTable == InitTable /\ [][NextTable]_vars

\* The row omits the column, or holds Null in it.
Omits(row, column) == RowGet(row, column.name) \in {NoValue, Null}

\* The columns of the schema that are non-nullable and have no default.
Required(schema) ==
    {i \in 1..Len(schema) : ~schema[i].nullable /\ schema[i].default_value = NoValue}

\* The row misses nothing: every column without a default has a non-null
\* value, and no stored row has its value in a unique column.
Insertable(table, row) ==
    /\ \A i \in 1..Len(table.schema) :
          table.schema[i].default_value = NoValue => ~Omits(row, table.schema[i])
    /\ ~UniqueScanHit(table, Backfill(table.schema, row))

\* The insert stored the row it was given with the defaults of the columns
\* the row does not hold.
StoredWithDefaults(table, stored, row) ==
    /\ stored.id = row.id
    /\ \A i \in 1..Len(table.schema) :
          LET c == table.schema[i].name IN
          IF c \in DOMAIN row.data
          THEN RowGet(stored, c) = row.data[c]
          ELSE RowGet(stored, c) = table.schema[i].default_value

\* The outcome of an insert of the row given, for the columns in `required`.
InsertOutcome(required(_)) ==
    \A t \in Tasks :
        (TableInsertStep(t) /\ res'[t].kind = "table_insert") =>
            LET table == store["t"]
                row == res'[t].rows[1]
            IN  /\ (\E i \in required(table.schema) : Omits(row, table.schema[i]))
                      => /\ res'[t].err = "NotNullViolation"
                         /\ store' = store
                /\ res'[t].err = "Ok"
                      => /\ Len(store'["t"].rows) = Len(table.rows) + 1
                         /\ SubSeq(store'["t"].rows, 1, Len(table.rows)) = table.rows
                         /\ StoredWithDefaults(table,
                                store'["t"].rows[Len(table.rows) + 1], row)
                /\ Insertable(table, row) => res'[t].err = "Ok"

\* The required columns that are no primary key.
RequiredNonKey(schema) == {i \in Required(schema) : ~schema[i].primary_key}

Refused(t, err) ==
    /\ pc'[t] = "idle"
    /\ res'[t].err = err
    /\ store' = store
    /\ log_file' = log_file
    /\ current_log_id' = current_log_id

\* The step of a facade call of task t that looks its table up.
Lookup(t) ==
    \/ DropTableApply(t)
    \/ QueryExec(t)
    \/ GetTableInfo(t)
    \/ InsertApply(t) /\ op[t].kind = "insert"
    \/ UpdateApply(t)
    \/ DeleteScan(t)

\* C16: create_table on a name present fails with TableExists; drop_table,
\* query, get_table_info, insert, update and delete on an absent table fail
\* with TableNotFound; store and log are unchanged in each case.
C16_ExistsAndNotFound ==
    [][\A t \in Tasks :
          /\ (CreateTableApply(t) /\ op[t].table \in DOMAIN store)
                => Refused(t, "TableExists")
          /\ (Lookup(t) /\ op[t].table \notin DOMAIN store)
                => Refused(t, "TableNotFound")]_vars

\* A second create_table of t was refused while t holds a row.
C16_Witness ==
    /\ res[1].kind = "create_table" /\ res[1].err = "TableExists"
    /\ "t" \in DOMAIN store
    /\ Len(store["t"].rows) = 1
    /\ Len(log_file) = 2

\* ---------------------------------------------------- facade delete and update
\* The facade call of that kind of task t returns Ok on this step.
ReturnsOk(t, kind) ==
    /\ pc[t] # "idle" /\ op[t].kind = kind
    /\ pc'[t] = "idle" /\ res'[t].err = "Ok"

\* The store the call found when it took its guard.
Found(t) == IF pre[t].present THEN pre[t].store ELSE store

\* count() of the table.
CountAll(storage, name) == query(storage, name, Query("Count", <<>>)).val

\* The values of the updated row: the given columns set, the others kept.
UpdatedFrom(after, before, updates) ==
    /\ after.id = before.id
    /\ DOMAIN after.data = DOMAIN before.data \cup DOMAIN updates
    /\ \A c \in DOMAIN after.data :
          after.data[c] = IF c \in DOMAIN updates THEN updates[c] ELSE before.data[c]

\* C17: delete removes exactly the rows for which every condition holds and
\* returns their number, update sets the given columns on exactly those rows
\* and returns their number; every other row keeps its id, its values and
\* its relative position, and count() goes down by the rows deleted.
C17_DeleteUpdateExactly ==
    [][\A t \in Tasks :
          /\ ReturnsOk(t, "delete") =>
                LET name == op[t].table
                    rows == Found(t)[name].rows
                    keep == SelectSeq(rows, LAMBDA r : ~Matches(op[t].conditions, r))
                IN  /\ store'[name].rows = keep
                    /\ res'[t].val = Len(rows) - Len(keep)
                    /\ CountAll(store', name) = CountAll(Found(t), name) - res'[t].val
                    /\ store'[name].schema = Found(t)[name].schema
          /\ ReturnsOk(t, "update") =>
                LET name == op[t].table
                    rows == Found(t)[name].rows
                    after == store'[name].rows
                    hit == {k \in 1..Len(rows) : Matches(op[t].conditions, rows[k])}
                IN  /\ Len(after) = Len(rows)
                    /\ \A k \in 1..Len(rows) :
                          IF k \in hit
                          THEN UpdatedFrom(after[k], rows[k], op[t].updates)
                          ELSE after[k] = rows[k]
                    /\ res'[t].val = Cardinality(hit)
                    /\ CountAll(store', name) = CountAll(Found(t), name)]_vars

\* A delete took one of two rows and left the other.
C17_Witness ==
    /\ res[1].kind = "delete" /\ res[1].err = "Ok" /\ res[1].val = 1
    /\ "t" \in DOMAIN store
    /\ Len(store["t"].rows) = 1
    /\ Len(log_file) = 4

\* ------------------------------------------------------------------ query()
\* The number of rows of the table matching every condition.
Matching(table, conditions) ==
    Cardinality({k \in 1..Len(table.rows) : Matches(conditions, table.rows[k])})

\* C18: query() of any kind leaves the store and the log unchanged; Update
\* and Delete return the number of rows matching all conditions as
\* affected_rows, Insert with a payload returns 1.
C18_QueryReadsOnly ==
    [][\A t \in Tasks :
          QueryExec(t) =>
              /\ store' = store
              /\ disk' = disk
              /\ op[t].table \in DOMAIN store =>
                    LET q == op[t].query IN
                    /\ q.query_type \in {"Update", "Delete"} =>
                          /\ res'[t].err = "Ok"
                          /\ res'[t].val = Matching(store[op[t].table], q.conditions)
                    /\ (q.query_type = "Insert" /\ q.data.some) =>
                          res'[t].err = "Ok" /\ res'[t].val = 1]_vars

\* An Insert query answered 1 and the table is as empty as before.
C18_Witness ==
    /\ res[1].kind = "query" /\ res[1].err = "Ok" /\ res[1].val = 1
    /\ "t" \in DOMAIN store
    /\ store["t"].rows = <<>>
    /\ Len(log_file) = 1

\* ------------------------------------------------------- queries on their own
\* The values of column v in the rows queried: none, Null, two integers, a text.
Ta == TextValue(<<"a">>)
QueryRowInputs ==
    {[id |-> I1], [id |-> I1, v |-> Null], [id |-> I1, v |-> I1],
     [id |-> I1, v |-> I2], [id |-> I1, v |-> Ta]}
ComparisonOperators ==
    {"Equal", "NotEqual", "GreaterThan", "GreaterThanOrEqual", "LessThan",
     "LessThanOrEqual", "Like", "In", "IsNull", "IsNotNull"}
ConditionValues ==
    {I1, Ta, TextValue(<<"%">>), Null, JsonValue(JsonArray(<<JsonNumber(1)>>))}
\* No condition or one condition on v.
ConditionInputs ==
    {<<>>} \cup {<<Condition("v", o, value)>> :
                    o \in ComparisonOperators, value \in ConditionValues}
SelectCountInputs ==
    {Query(k, conditions) : k \in {"Select", "Count"}, conditions \in ConditionInputs}

\* The tables queried: row k has the id k.
TableInputs ==
    UNION {{[name |-> "t", schema |-> SchemaPk,
             rows |-> [k \in 1..n |-> RowSetAll(RowNew(k),
                          [data[k] EXCEPT !.id = IntegerValue(k)])]] :
               data \in [1..n -> QueryRowInputs]} : n \in 0..MaxRows}

\* A store holding one table, and one query to come.
InitQuery ==
    /\ store \in {[n \in TableNames |-> table] : table \in TableInputs}
    /\ log_file = <<>>
    /\ snapshot_file = NoSnapshot
    /\ current_log_id = 0
    /\ auto_save = TRUE
    /\ writer = NoTask
    /\ readers = [t \in Tasks |-> 0]
    /\ queue = <<>>
    /\ pc = [t \in Tasks |-> "idle"]
    /\ op = [t \in Tasks |-> NoOp]
    /\ loc = [t \in Tasks |-> NoLoc]
    /\ res = [t \in Tasks |-> NoRes]
    /\ pre = [t \in Tasks |-> NoPre]
    /\ next_row_id = MaxRows + 1
    /\ budget = 1
    /\ faults = 0
    /\ backup_dir = NoBackup
    /\ clean = TRUE

NextQuery == QueryCallWith(1, SelectCountInputs) \/ QueryExec(1)

SpecQuery == InitQuery /\ [][NextQuery]_vars

\* The row has a value in the column and it is not Null.
Typed(row, column) == RowGet(row, column) \notin {NoValue, Null}

\* The condition is true of the row, a condition on a column the row does not
\* have being true for IS NULL only.
IsTrue(condition, row) ==
    IF RowGet(row, condition.column) = NoValue
    THEN condition.operator = "IsNull"
    ELSE IF RowGet(row, condition.column) = Null /\ condition.operator = "IsNull"
         THEN TRUE
         ELSE evaluate(condition, row).err = "Ok" /\ evaluate(condition, row).val

\* C19: Select and Count keep exactly the rows for which every condition is
\* true, a condition on a missing column being false for every operator but
\* IS NULL, which is true for a missing column and for a stored Null.
C19_MissingColumnFalse ==
    [][\A t \in Tasks :
          (QueryExec(t) /\ op[t].query.query_type \in {"Select", "Count"}
                        /\ op[t].table \in DOMAIN store) =>
              LET q == op[t].query
                  kept == SelectSeq(store[op[t].table].rows, LAMBDA r :
                              \A i \in 1..Len(q.conditions) : IsTrue(q.conditions[i], r))
              IN  /\ res'[t].err = "Ok"
                  /\ res'[t].val = Len(kept)
                  /\ q.query_type = "Select" => res'[t].rows = kept]_vars

\* Some row holds a typed value that the condition compares, with one of the
\* six comparison operators, with a typed value of another tag.
Mismatch(q, rows) ==
    \E i \in 1..Len(q.conditions), k \in 1..Len(rows) :
        /\ q.conditions[i].operator \in
              {"Equal", "NotEqual", "GreaterThan", "GreaterThanOrEqual",
               "LessThan", "LessThanOrEqual"}
        /\ Typed(rows[k], q.conditions[i].column)
        /\ q.conditions[i].value # Null
        /\ RowGet(rows[k], q.conditions[i].column).tag # q.conditions[i].value.tag

\* C20: a query whose condition compares a row value with a value of another
\* non-null tag returns the error TypeMismatch to the caller.
C20_TypeMismatchReturned ==
    [][\A t \in Tasks :
          (QueryExec(t) /\ op[t].table \in DOMAIN store
                        /\ Mismatch(op[t].query, store[op[t].table].rows))
              => res'[t].err = "TypeMismatch"]_vars

\* ------------------------------------------------------------------------ IN
\* The array element equals the value: the number n and the Integer n.
ItemEquals(item, value) == item.kind = "number" /\ value = IntegerValue(item.n)

\* `col IN arr` as stated: arr is a Json array and one of its elements equals
\* the value the row holds in the column.
InHolds(condition, row) ==
    /\ condition.value.tag = "Json"
    /\ condition.value.val.kind = "array"
    /\ RowGet(row, condition.column) # NoValue
    /\ \E k \in 1..Len(condition.value.val.items) :
          ItemEquals(condition.value.val.items[k], RowGet(row, condition.column))

\* C21: `col IN arr` is true exactly when arr is a Json array and an element
\* of arr equals the row's value in col; false when no element equals it,
\* when the column is missing and when the right-hand value is no Json array.
C21_InMatchesEqualElement ==
    [][\A t \in Tasks :
          (QueryExec(t) /\ op[t].table \in DOMAIN store
                        /\ Len(op[t].query.conditions) = 1
                        /\ op[t].query.conditions[1].operator = "In") =>
              LET q == op[t].query
                  kept == SelectSeq(store[op[t].table].rows,
                                    LAMBDA r : InHolds(q.conditions[1], r))
              IN  /\ res'[t].err = "Ok"
                  /\ res'[t].val = Len(kept)
                  /\ q.query_type = "Select" => res'[t].rows = kept]_vars

\* ------------------------------------------------------- ORDER BY and paging
\* The machine word of offset and limit, at a width of four bits.
UsizeMax == 15
MaxSortRows == 3

NoNumber == [some |-> FALSE, value |-> 0]
SomeNumber(n) == [some |-> TRUE, value |-> n]

OrderBy(column, ascending) == [column |-> column, ascending |-> ascending]

SelectQuery(conditions, order_by, limit, offset) ==
    [query_type |-> "Select", conditions |-> conditions, data |-> NoData,
     order_by |-> order_by, limit |-> limit, offset |-> offset]

\* The match of sort_rows on one key: two values of one comparable tag by
\* value, a missing column before a present one, anything else Equal.
KeyCompare(a_val, b_val) ==
    IF a_val.tag = b_val.tag /\ a_val.tag \in ComparableTags
    THEN IF a_val.tag = "Text" THEN CmpText(a_val.val, b_val.val)
                               ELSE Cmp(a_val.val, b_val.val)
    ELSE IF a_val = NoValue /\ b_val = NoValue THEN 0
    ELSE IF a_val = NoValue THEN -1
    ELSE IF b_val = NoValue THEN 1
    ELSE 0

\* The closure handed to sort_by: the first key that differs decides.
RECURSIVE compare(_, _, _)
compare(a, b, order_by) ==
    IF order_by = <<>> THEN 0
    ELSE LET order == Head(order_by)
             comparison == KeyCompare(RowGet(a, order.column),
                                      RowGet(b, order.column))
         IN  IF comparison # 0
             THEN IF order.ascending THEN comparison ELSE 0 - comparison
             ELSE compare(a, b, Tail(order_by))

\* The closure is a total order on the rows, as sort_by requires.
TotalOrder(rows, order_by) ==
    \A i, j, k \in 1..Len(rows) :
        /\ compare(rows[i], rows[j], order_by)
             = 0 - compare(rows[j], rows[i], order_by)
        /\ (compare(rows[i], rows[j], order_by) <= 0
              /\ compare(rows[j], rows[k], order_by) <= 0)
             => compare(rows[i], rows[k], order_by) <= 0

Rearrangements(n) ==
    {p \in [1..n -> 1..n] : \A i, j \in 1..n : p[i] = p[j] => i = j}

Permuted(rows, p) == [k \in 1..Len(rows) |-> rows[p[k]]]

\* p puts the rows in the order of the closure, equal rows in their old order.
StableSorted(rows, order_by, p) ==
    \A i, j \in 1..Len(rows) :
        i < j => \/ compare(rows[p[i]], rows[p[j]], order_by) < 0
                 \/ /\ compare(rows[p[i]], rows[p[j]], order_by) = 0
                    /\ p[i] < p[j]

Panicked == [panic |-> TRUE, rows |-> <<>>]
Rows(rows) == [panic |-> FALSE, rows |-> rows]

\* The mutant of sort_rows: only the first key is used.
sort_rows_first_key(rows, order_by) ==
    {Rows(Permuted(rows, p)) :
        p \in {q \in Rearrangements(Len(rows)) :
                  StableSorted(rows, SubSeq(order_by, 1, 1), q)}}
\* Vec::sort_by: the stable sort when the closure is a total order on the
\* rows; otherwise the order is unspecified and the call may panic.
sort_rows(rows, order_by) ==
    IF TotalOrder(rows, order_by)
    THEN {Rows(Permuted(rows, p)) :
             p \in {q \in Rearrangements(Len(rows)) :
                       StableSorted(rows, order_by, q)}}
    ELSE {Rows(Permuted(rows, p)) : p \in Rearrangements(Len(rows))}
           \cup {Panicked}

\* An end that forgets the offset: `limit` instead of `start + limit`.
EndOfLimit(start, limit, len) ==
    IF ~limit.some THEN {[panic |-> FALSE, end |-> len]}
    ELSE {[panic |-> FALSE, end |-> limit.value]}
\* `start + limit`: an overflow panics where overflow checks are compiled in
\* and wraps where they are not.
EndOf(start, limit, len) ==
    IF ~limit.some THEN {[panic |-> FALSE, end |-> len]}
    ELSE IF start + limit.value > UsizeMax
         THEN {[panic |-> TRUE, end |-> 0],
               [panic |-> FALSE, end |-> (start + limit.value) % (UsizeMax + 1)]}
         ELSE {[panic |-> FALSE, end |-> start + limit.value]}

\* rows[start..end.min(len)] when start < len, no rows otherwise.
Slice(rows, start, end) ==
    IF start < Len(rows)
    THEN IF start > Min({end, Len(rows)}) THEN Panicked
         ELSE Rows(SubSeq(rows, start + 1, Min({end, Len(rows)})))
    ELSE Rows(<<>>)

paginate(rows, offset, limit) ==
    LET start == IF offset.some THEN offset.value ELSE 0
    IN  {IF end.panic THEN Panicked ELSE Slice(rows, start, end.end) :
            end \in EndOf(start, limit, Len(rows))}

\* The call does not return: the task unwinds.
Panic == Err("Panic")

Filtered(table, q) ==
    SelectSeq(table.rows, LAMBDA row : Matches(q.conditions, row))

\* The results of a Select whose sort ended as `sorted`.
SelectAfterSort(sorted, q) ==
    IF sorted.panic THEN {Panic}
    ELSE {IF page.panic THEN Panic
            ELSE [err |-> "Ok", val |-> Len(page.rows), rows |-> page.rows] :
             page \in paginate(sorted.rows, q.offset, q.limit)}

execute_select(table, q) ==
    UNION {SelectAfterSort(sorted, q) :
              sorted \in sort_rows(Filtered(table, q), q.order_by)}

SelectExec(t) ==
    /\ pc[t] = "query"
    /\ \E r \in IF op[t].table \in DOMAIN store
                THEN execute_select(store[op[t].table], op[t].query)
                ELSE {Err("TableNotFound")} : Return(t, r)
    /\ ReleaseRead(t)
    /\ UNCHANGED <<store, disk, auto_save, next_row_id, budget, clean>>

\* Rows with two integer columns, v being absent or Null in some.
SortRowInputs ==
    {[id |-> I1, w |-> I1], [id |-> I1, v |-> Null, w |-> I1],
     [id |-> I1, v |-> I1, w |-> I1], [id |-> I1, v |-> I1, w |-> I2],
     [id |-> I1, v |-> I2, w |-> I1], [id |-> I1, v |-> I2, w |-> I2]}

SortTableInputs ==
    UNION {{[name |-> "t", schema |-> SchemaPk,
             rows |-> [k \in 1..n |-> RowSetAll(RowNew(k),
                          [data[k] EXCEPT !.id = IntegerValue(k)])]] :
               data \in [1..n -> SortRowInputs]} : n \in 0..MaxSortRows}

OrderByInputs ==
    {<<>>, <<OrderBy("v", TRUE)>>, <<OrderBy("v", FALSE)>>,
     <<OrderBy("v", TRUE), OrderBy("w", FALSE)>>,
     <<OrderBy("w", FALSE), OrderBy("v", TRUE)>>}

NumberInputs == {NoNumber, SomeNumber(0), SomeNumber(1), SomeNumber(2),
                 SomeNumber(UsizeMax)}

SortQueryInputs ==
    {SelectQuery(conditions, order_by, limit, offset) :
        conditions \in {<<>>, <<Condition("w", "Equal", I1)>>},
        order_by \in OrderByInputs,
        limit \in NumberInputs, offset \in NumberInputs}

\* The rows of pages 0..k, one after the other.
RECURSIVE ConcatPages(_, _)
ConcatPages(pages, k) ==
    IF k < 0 THEN <<>> ELSE ConcatPages(pages, k - 1) \o pages[k].rows

PageSizes == {1, 2, 3, UsizeMax}

PageQueryInputs ==
    {SelectQuery(conditions, order_by, SomeNumber(L), NoNumber) :
        conditions \in {<<>>, <<Condition("w", "Equal", I1)>>},
        order_by \in OrderByInputs, L \in PageSizes}

\* A caller reads the table once whole and once page by page: the same Select
\* with limit L at offsets 0, L, 2L, ... up to the first page of fewer than L
\* rows. The table is the same in every call, so the sort ends the same way
\* in every call. loc keeps the whole result, res the pages put together.
SelectPages(t) ==
    /\ pc[t] = "idle"
    /\ budget > 0
    /\ budget' = budget - 1
    /\ \E name \in DOMAIN store, q \in PageQueryInputs :
         \E sorted \in sort_rows(Filtered(store[name], q), q.order_by) :
            LET whole == CHOOSE r \in SelectAfterSort(sorted,
                                         [q EXCEPT !.limit = NoNumber]) : TRUE
                L == q.limit.value
                last == Len(whole.rows) \div L
                Page(k) == SelectAfterSort(sorted,
                               [q EXCEPT !.offset = SomeNumber(k * L)])
            IN  \E pages \in [0..last -> UNION {Page(k) : k \in 0..last}] :
                   /\ \A k \in 0..last : pages[k] \in Page(k)
                   /\ loc' = [loc EXCEPT ![t] = whole]
                   /\ res' = [res EXCEPT ![t] =
                         [kind |-> "pages",
                          err |-> IF \A k \in 0..last : pages[k].err = "Ok"
                                  THEN "Ok" ELSE "Panic",
                          val |-> last + 1,
                          rows |-> ConcatPages(pages, last)]]
    /\ UNCHANGED <<store, disk, lock, auto_save, next_row_id, pc, op, pre,
                   clean, backup_dir>>

InitSort ==
    /\ store \in {[n \in TableNames |-> table] : table \in SortTableInputs}
    /\ log_file = <<>>
    /\ snapshot_file = NoSnapshot
    /\ current_log_id = 0
    /\ auto_save = TRUE
    /\ writer = NoTask
    /\ readers = [t \in Tasks |-> 0]
    /\ queue = <<>>
    /\ pc = [t \in Tasks |-> "idle"]
    /\ op = [t \in Tasks |-> NoOp]
    /\ loc = [t \in Tasks |-> NoLoc]
    /\ res = [t \in Tasks |-> NoRes]
    /\ pre = [t \in Tasks |-> NoPre]
    /\ next_row_id = MaxSortRows + 1
    /\ budget = 1
    /\ faults = 0
    /\ backup_dir = NoBackup
    /\ clean = TRUE

NextSort == QueryCallWith(1, SortQueryInputs) \/ SelectExec(1) \/ SelectPages(1)

SpecSort == InitSort /\ [][NextSort]_vars

\* The two rows hold values of one comparable tag in every key column.
Comparable(a, b, order_by) ==
    \A k \in 1..Len(order_by) :
        LET a_val == RowGet(a, order_by[k].column)
            b_val == RowGet(b, order_by[k].column)
        IN  a_val.tag = b_val.tag /\ a_val.tag \in ComparableTags

\* Row a comes before row b by the keys, the leftmost key that differs
\* deciding, ascending or descending as that key says.
RECURSIVE Before(_, _, _)
Before(a, b, order_by) ==
    /\ order_by # <<>>
    /\ LET a_val == RowGet(a, Head(order_by).column).val
           b_val == RowGet(b, Head(order_by).column).val
       IN  \/ Head(order_by).ascending /\ a_val < b_val
           \/ ~Head(order_by).ascending /\ a_val > b_val
           \/ a_val = b_val /\ Before(a, b, Tail(order_by))

\* The place of the row with this id among the rows.
Place(rows, id) == CHOOSE k \in 1..Len(rows) : rows[k].id = id

\* C22: a Select with an OrderBy list and no limit or offset returns the
\* filtered rows, each once, and of any two returned rows that hold values of
\* one comparable type in every key column the first is before the second by
\* the keys (leftmost differing key decides, each key in its own direction),
\* or they are equal on every key and were in that order in the table.
C22_SortedByKeys ==
    [][\A t \in Tasks :
          (SelectExec(t) /\ ~op[t].query.limit.some
                         /\ ~op[t].query.offset.some) =>
              LET q == op[t].query
                  filtered == Filtered(store[op[t].table], q)
                  out == res'[t].rows
              IN  /\ res'[t].err = "Ok"
                  /\ Len(out) = Len(filtered)
                  /\ \A k \in 1..Len(filtered) :
                        \E i \in 1..Len(out) : out[i] = filtered[k]
                  /\ \A i, j \in 1..Len(out) :
                        (i < j /\ Comparable(out[i], out[j], q.order_by)) =>
                            \/ Before(out[i], out[j], q.order_by)
                            \/ /\ ~Before(out[j], out[i], q.order_by)
                               /\ Place(filtered, out[i].id)
                                    < Place(filtered, out[j].id)]_vars

\* C23: when the Select without limit and offset returns its rows, the pages
\* of the same Select with limit L >= 1 at offsets 0, L, 2L, ..., put one
\* after the other, are exactly those rows in the same order: every row once.
C23_PagesMakeTheWhole ==
    [][\A t \in Tasks :
          (res'[t].kind = "pages" /\ res[t].kind # "pages"
                                  /\ loc'[t].err = "Ok") =>
              /\ res'[t].err = "Ok"
              /\ res'[t].rows = loc'[t].rows]_vars

\* Three rows were read in two or more pages, in an order that the sort
\* changed.
C23_Witness ==
    /\ res[1].kind = "pages" /\ res[1].err = "Ok"
    /\ res[1].val >= 2
    /\ Len(res[1].rows) = 3
    /\ res[1].rows[1].id # 1
    /\ res[1].rows = loc[1].rows

\* C24: a Select without OrderBy, with offset O (0 when absent) and limit L
\* (no end when absent) over n filtered rows, returns Ok with the rows
\* min(O, n) + 1 .. min(O + L, n) of the filtered rows, O + L being the sum of
\* the two numbers however large: at most L rows, none when O >= n, and the
\* call never fails or panics.
C24_PageWithinBounds ==
    [][\A t \in Tasks :
          (SelectExec(t) /\ op[t].query.order_by = <<>>) =>
              LET q == op[t].query
                  filtered == Filtered(store[op[t].table], q)
                  n == Len(filtered)
                  O == IF q.offset.some THEN q.offset.value ELSE 0
                  end == IF q.limit.some THEN O + q.limit.value ELSE n
              IN  /\ res'[t].err = "Ok"
                  /\ res'[t].rows
                       = SubSeq(filtered, Min({O, n}) + 1, Min({end, n}))]_vars

\* ---------------------------------------------------------------------- LIKE
MaxText == 2

Strings(chars) == UNION {[1..k -> chars] : k \in 0..MaxText}

\* A store holding the table t, and one call to come.
InitStores(tables) ==
    /\ store \in {[n \in TableNames |-> table] : table \in tables}
    /\ log_file = <<>>
    /\ snapshot_file = NoSnapshot
    /\ current_log_id = 0
    /\ auto_save = TRUE
    /\ writer = NoTask
    /\ readers = [t \in Tasks |-> 0]
    /\ queue = <<>>
    /\ pc = [t \in Tasks |-> "idle"]
    /\ op = [t \in Tasks |-> NoOp]
    /\ loc = [t \in Tasks |-> NoLoc]
    /\ res = [t \in Tasks |-> NoRes]
    /\ pre = [t \in Tasks |-> NoPre]
    /\ next_row_id = 2
    /\ budget = 1
    /\ faults = 0
    /\ backup_dir = NoBackup
    /\ clean = TRUE

\* One row whose v is a text of letters and dots.
LikeTableInputs ==
    {[name |-> "t", schema |-> SchemaPk,
      rows |-> <<RowSetAll(RowNew(1), [id |-> I1, v |-> TextValue(text)])>>] :
        text \in Strings({"a", "b", "."})}

\* v LIKE p for patterns of letters, wildcards and dots.
LikeQueryInputs ==
    {Query("Select", <<Condition("v", "Like", TextValue(p))>>) :
        p \in Strings({"a", "%", "_", "."})}

InitLike == InitStores(LikeTableInputs)

NextLike == QueryCallWith(1, LikeQueryInputs) \/ QueryExec(1)

SpecLike == InitLike /\ [][NextLike]_vars

\* The whole text matches the pattern when % takes any run of characters,
\* _ takes one character and any other character takes only itself.
RECURSIVE Wildcards(_, _)
Wildcards(text, pattern) ==
    IF pattern = <<>> THEN text = <<>>
    ELSE IF Head(pattern) = "%"
         THEN \/ Wildcards(text, Tail(pattern))
              \/ text # <<>> /\ Wildcards(Tail(text), pattern)
         ELSE /\ text # <<>>
              /\ Head(pattern) = "_" \/ Head(pattern) = Head(text)
              /\ Wildcards(Tail(text), Tail(pattern))

\* C25: a Select with `v LIKE p` returns the row exactly when the whole text
\* of v matches p with % as any run of characters, _ as one character and
\* every other character, the dot included, as itself.
C25_LikeOnlyWildcards ==
    [][\A t \in Tasks :
          QueryExec(t) =>
              LET row == store[op[t].table].rows[1]
                  p == op[t].query.conditions[1].value.val
              IN  /\ res'[t].err = "Ok"
                  /\ res'[t].rows = IF Wildcards(RowGet(row, "v").val, p)
                                    THEN <<row>> ELSE <<>>]_vars

\* ----------------------------------------------------------------- get_stats
\* StorageEngine::get_stats: the lines of the log file are counted;
\* current_log_id keeps the 0 of StorageStats::default.
StorageStats(file) == [total_log_entries |-> Len(file), current_log_id |-> 0]

RECURSIVE TotalRows(_, _)
TotalRows(storage, names) ==
    IF names = {} THEN 0
    ELSE LET name == CHOOSE n \in names : TRUE
         IN  Len(storage[name].rows) + TotalRows(storage, names \ {name})

\* DatabaseStats.
get_stats(storage, file) ==
    [total_tables |-> Cardinality(DOMAIN storage),
     total_rows |-> TotalRows(storage, DOMAIN storage),
     storage_stats |-> StorageStats(file)]

GetStatsCall(t) ==
    /\ Begin(t, [kind |-> "get_stats"])
    /\ Request(t, "read", "get_stats")
    /\ UNCHANGED next_row_id

\* The stats are the one element of the result's rows.
GetStats(t) ==
    /\ pc[t] = "get_stats"
    /\ Return(t, [err |-> "Ok", val |-> 0,
                  rows |-> <<get_stats(store, log_file)>>])
    /\ ReleaseRead(t)
    /\ UNCHANGED <<store, disk, auto_save, next_row_id, budget, clean>>

\* One task that also asks for the stats.
NextStats ==
    \/ Call(1)
    \/ Body(1)
    \/ GetStatsCall(1)
    \/ GetStats(1)

SpecStats == Init /\ [][NextStats]_vars

\* C26: the stats returned by get_stats hold the highest log id issued so far
\* as current_log_id, the number of entries of the log as total_log_entries,
\* the number of tables of the store as total_tables and the sum of their row
\* counts as total_rows.
C26_StatsAreCurrent ==
    [][\A t \in Tasks :
          GetStats(t) =>
              LET stats == res'[t].rows[1] IN
              /\ stats.storage_stats.current_log_id = current_log_id
              /\ stats.storage_stats.total_log_entries = Len(log_file)
              /\ stats.total_tables = Cardinality(DOMAIN store)
              /\ stats.total_rows
                   = TotalRows(store, DOMAIN store)]_vars

\* ------------------------------------------------------- entries per change
\* The log the call found when it took its guard.
FoundLog(t) == IF pre[t].present THEN pre[t].log_file ELSE log_file

\* The operations the call has appended once its last step is taken.
Appended(t) ==
    [k \in 1..(Len(log_file') - Len(FoundLog(t))) |->
        log_file'[Len(FoundLog(t)) + k].operation]

\* C27: with auto-save on, a create_table, drop_table or insert that returns
\* Ok has appended one entry; an update that returns Ok has appended one
\* Update entry for each row that matched its conditions, and a delete one
\* Delete entry for each row that matched, and nothing else.
C27_OneEntryPerChange ==
    [][\A t \in Tasks :
          auto_save =>
            /\ \A kind \in {"create_table", "drop_table", "insert"} :
                  ReturnsOk(t, kind) => Len(Appended(t)) = 1
            /\ ReturnsOk(t, "update") =>
                  LET rows == Found(t)[op[t].table].rows
                      hit == {k \in 1..Len(rows) :
                                 Matches(op[t].conditions, rows[k])}
                  IN  /\ Len(Appended(t)) = Cardinality(hit)
                      /\ {Appended(t)[i] : i \in 1..Len(Appended(t))}
                           = {OpUpdate(op[t].table, UuidToString(rows[k].id),
                                       op[t].updates) : k \in hit}
            /\ ReturnsOk(t, "delete") =>
                  LET rows == Found(t)[op[t].table].rows
                      hit == {k \in 1..Len(rows) :
                                 Matches(op[t].conditions, rows[k])}
                  IN  /\ Len(Appended(t)) = Cardinality(hit)
                      /\ {Appended(t)[i] : i \in 1..Len(Appended(t))}
                           = {OpDelete(op[t].table, UuidToString(rows[k].id)) :
                                 k \in hit}]_vars

\* ------------------------------------------------------------ apply-then-log
FacadeWrites ==
    {"create_table", "drop_table", "insert", "batch_insert", "update", "delete"}

HasRow(storage, table, id) ==
    /\ table \in DOMAIN storage
    /\ \E k \in 1..Len(storage[table].rows) : storage[table].rows[k].id = id

\* The store holds the change that the operation describes.
Applied(storage, operation) ==
    CASE operation.kind = "Create" ->
            /\ operation.table \in DOMAIN storage
            /\ storage[operation.table].schema = operation.schema
      [] operation.kind = "Drop" -> operation.table \notin DOMAIN storage
      [] operation.kind = "Insert" ->
            HasRow(storage, operation.table, operation.row.id)
      [] operation.kind = "Delete" ->
            /\ operation.table \in DOMAIN storage
            /\ ~HasRow(storage, operation.table, UuidParseStr(operation.id).id)
      [] operation.kind = "Update" ->
            /\ operation.table \in DOMAIN storage
            /\ \E k \in 1..Len(storage[operation.table].rows) :
                  LET row == storage[operation.table].rows[k] IN
                  /\ row.id = UuidParseStr(operation.id).id
                  /\ \A c \in DOMAIN operation.data :
                        RowGet(row, c) = operation.data[c]

StoreErrors ==
    {"TableExists", "TableNotFound", "UniqueViolation", "NotNullViolation"}

Appending(u) ==
    pc[u] \in {"create_table_log", "drop_table_log", "insert_log",
               "update_log", "delete_log", "commit_log"}

\* The task's query holds the store in read mode and is about to execute.
Reading(t) == pc[t] = "query" /\ readers[t] > 0

\* C29: a query called while another task's write is appending its entry to
\* the log gets the store in read mode and runs: the read proceeds while the
\* log append is in flight.
C29_ReadDuringLogAppend ==
    [][\A t, u \in Tasks :
          (t # u /\ Appending(u) /\ pc[t] = "idle"
                 /\ pc'[t] # "idle" /\ op'[t].kind = "query") =>
              Reading(t)']_vars

\* A task that is appending holds the store in write mode, alone: no query
\* holds it in read mode meanwhile.
WriteGuardHeldWhileAppending ==
    \A u \in Tasks :
        Appending(u) => /\ writer = u
                        /\ \A t \in Tasks : ~Reading(t)

\* A write is about to append its entry and the other task's query waits
\* for the store.
C29_Witness ==
    /\ pc[1] = "insert_log"
    /\ pc[2] = "wait" /\ op[2].kind = "query"
    /\ queue # <<>> /\ Head(queue).task = 2 /\ Head(queue).mode = "read"

\* ------------------------------------------------------------- Null ordering
Returned(t, row) == \E k \in 1..Len(res'[t].rows) : res'[t].rows[k] = row

\* C30: in a Select with one condition on v, a row whose v is a stored Null
\* is returned for `v < x`, `v <= x` and `v != x` and not returned for
\* `v = x`, `v > x`, `v >= x` when x is a typed value; and `v = Null`
\* returns the rows whose v is a stored Null or missing.
C30_NullIsLeast ==
    [][\A t \in Tasks :
          (QueryExec(t) /\ op[t].query.query_type = "Select"
                        /\ Len(op[t].query.conditions) = 1) =>
              LET c == op[t].query.conditions[1]
                  rows == store[op[t].table].rows
              IN  \A k \in 1..Len(rows) :
                     /\ (RowGet(rows[k], c.column) = Null
                           /\ c.value.tag \in {"Integer", "Text"}) =>
                            /\ c.operator \in {"LessThan", "LessThanOrEqual",
                                                "NotEqual"}
                                  => Returned(t, rows[k])
                            /\ c.operator \in {"Equal", "GreaterThan",
                                                "GreaterThanOrEqual"}
                                  => ~Returned(t, rows[k])
                     /\ (RowGet(rows[k], c.column) \in {Null, NoValue}
                           /\ c.value = Null /\ c.operator = "Equal") =>
                            Returned(t, rows[k])]_vars

\* ------------------------------------------------------------ Null in a sort
\* The row has no typed value in the column: a stored Null or no column.
NullIn(row, column) == RowGet(row, column) \in {Null, NoValue}

\* C31: a Select sorted on one column, without limit and offset, returns
\* every row whose value in the column is a stored Null or missing before
\* every row with a typed value when the sort is ascending, and after every
\* such row when it is descending; and the comparison of the sort is a
\* consistent (transitive, antisymmetric) ordering of the rows sorted.
C31_NullSortsFirst ==
    [][\A t \in Tasks :
          (SelectExec(t) /\ Len(op[t].query.order_by) = 1
                         /\ ~op[t].query.limit.some
                         /\ ~op[t].query.offset.some) =>
              LET q == op[t].query
                  order == q.order_by[1]
                  out == res'[t].rows
              IN  /\ res'[t].err = "Ok"
                  /\ TotalOrder(Filtered(store[op[t].table], q), q.order_by)
                  /\ \A i, j \in 1..Len(out) :
                        (i < j /\ NullIn(out[j], order.column)
                               /\ ~NullIn(out[i], order.column))
                            => ~order.ascending
                  /\ \A i, j \in 1..Len(out) :
                        (i < j /\ NullIn(out[i], order.column)
                               /\ ~NullIn(out[j], order.column))
                            => order.ascending]_vars

\* --------------------------------------------------------- store invariants
\* C32: every row of every table holds a value that is not Null in every
\* primary-key column of the table's schema, also when the schema flags more
\* than one column as primary key.
C32_PrimaryKeyNotNull ==
    \A n \in DOMAIN store :
        \A k \in 1..Len(store[n].rows) :
            \A i \in get_primary_key_columns(store[n].schema) :
                RowGet(store[n].rows[k], store[n].schema[i].name)
                    \notin {NoValue, Null}

\* ------------------------------------------------- update_row and delete_row
\* The ids addressed: those of the rows and one that no row has.
RowIdInputs == 1..(MaxRows + 1)

\* A call on the MemoryStorage: its outcome goes to res, val being the id.
StorageStep(t, kind, id, r) ==
    /\ pc[t] = "idle"
    /\ budget > 0
    /\ budget' = budget - 1
    /\ store' = r.st
    /\ res' = [res EXCEPT ![t] = [kind |-> kind, err |-> r.err, val |-> id,
                                  rows |-> <<>>]]
    /\ UNCHANGED <<disk, backup_dir, auto_save, lock, pc, op, loc, pre,
                   next_row_id, clean>>

UpdateRowStep(t) ==
    \E id \in RowIdInputs, updates \in UpdateInputs :
        StorageStep(t, "update_row", id, update_row(store, "t", id, updates))

DeleteRowStep(t) ==
    \E id \in RowIdInputs :
        StorageStep(t, "delete_row", id, delete_row(store, "t", id))

\* The replay of one Update or Delete entry.
ApplyLogOperationStep(t) ==
    \E id \in RowIdInputs :
        \E operation \in {OpDelete("t", UuidToString(id))} \cup
                          {OpUpdate("t", UuidToString(id), updates) :
                              updates \in UpdateInputs} :
            StorageStep(t, "apply_log_operation", id,
                        apply_log_operation(store, operation))

InitRows == InitStores(TableInputs)

NextRows == UpdateRowStep(1) \/ DeleteRowStep(1) \/ ApplyLogOperationStep(1)

SpecRows == InitRows /\ [][NextRows]_vars

\* C33: update_row, delete_row and the replay of an Update or Delete entry
\* that address an id no row of the table has fail with RowNotFound and leave
\* the table as it was.
C33_RowNotFound ==
    [][\A t \in Tasks :
          (res'[t].kind \in {"update_row", "delete_row", "apply_log_operation"}
             /\ res[t].kind = "none"
             /\ ~HasRow(store, "t", res'[t].val)) =>
              /\ res'[t].err = "RowNotFound"
              /\ store' = store]_vars

\* C34: no two rows of a table hold equal values that are not Null in a
\* column flagged unique or primary key.
C34_UniqueColumns ==
    \A n \in DOMAIN store :
        \A i \in 1..Len(store[n].schema) :
            (store[n].schema[i].unique \/ store[n].schema[i].primary_key) =>
                \A k, j \in 1..Len(store[n].rows) :
                    LET a == RowGet(store[n].rows[k], store[n].schema[i].name)
                        b == RowGet(store[n].rows[j], store[n].schema[i].name)
                    IN  (k # j /\ a \notin {NoValue, Null}) => a # b

\* ------------------------------------------------------ ids after a reload
\* C35: every entry appended to the log, also by an engine that
\* load_from_disk built over an existing log, carries an id greater than the
\* id of every entry the log already holds, so no two entries share an id.
C35_FreshIdAfterLoad ==
    [][Len(log_file') = Len(log_file) + 1 =>
          \A k \in 1..Len(log_file) :
              log_file'[Len(log_file')].id > log_file[k].id]_vars

\* ------------------------------------------------- observed means logged
\* C36: with auto-save on, a query that holds the store in read mode finds no
\* write between its store mutation and its log append, and every facade
\* write that returns Ok after changing the store has appended an entry to
\* the log: what a query can observe is in the log.
C36_ObservedIsLogged ==
    [][\A t \in Tasks :
          /\ Reading(t) => \A u \in Tasks : ~Appending(u)
          /\ auto_save =>
                /\ \A kind \in {"create_table", "drop_table", "insert"} :
                      ReturnsOk(t, kind) => Len(Appended(t)) >= 1
                /\ \A kind \in {"update", "delete"} :
                      (ReturnsOk(t, kind) /\ store' # Found(t)) =>
                          Len(Appended(t)) >= 1]_vars

\* ------------------------------------------------ log order is apply order
\* The step is one of task t.
StepOf(t) == pc'[t] # pc[t] \/ loc'[t] # loc[t] \/ res'[t] # res[t]

\* C37: while a write of task t has changed the store and not yet appended
\* its entry, no step changes the store and only t appends to the log, and an
\* entry is appended only by a task in that position, which holds the store
\* in write mode: each mutation's entry follows it before any other mutation
\* or entry, so the log lists the mutations in the order they were applied.
C37_LogOrderIsApplyOrder ==
    [][/\ \A t \in Tasks :
             Appending(t) =>
                 /\ writer = t
                 /\ store' = store
                 /\ log_file' # log_file => StepOf(t)
       /\ log_file' # log_file =>
             /\ \E t \in Tasks : Appending(t)
             /\ Len(log_file') = Len(log_file) + 1
             /\ SubSeq(log_file', 1, Len(log_file)) = log_file
             /\ Applied(store, log_file'[Len(log_file')].operation)]_vars

\* One insert is between its store mutation and its log append while the
\* insert of the other task waits for the store.
C37_Witness ==
    /\ pc[1] = "insert_log"
    /\ pc[2] = "wait" /\ op[2].kind = "insert"
    /\ Len(log_file) = 1
    /\ Len(store["t"].rows) = 1

\* ------------------------------------------------- concurrent same-key writes
\* Rows a and b hold the same non-null value in a unique or primary-key
\* column of the schema.
SameKey(schema, a, b) ==
    \E i \in 1..Len(schema) :
        /\ schema[i].unique \/ schema[i].primary_key
        /\ RowGet(a, schema[i].name) \notin {NoValue, Null}
        /\ RowGet(a, schema[i].name) = RowGet(b, schema[i].name)

\* C38: when the insert of one task has stored its row and still holds the
\* store while the insert of another task, with the same non-null value in a
\* unique or primary-key column of the same table, waits for the store, the
\* waiting insert fails with UniqueViolation when its turn comes; and a
\* create_table that waits while a create_table of the same name has created
\* the table fails with TableExists.
C38_OneOfTwoSucceeds ==
    \A t, u \in Tasks :
        (t # u /\ pc[u] = "wait") =>
            /\ (/\ pc[t] = "insert_log" /\ op[u].kind = "insert"
                /\ op[u].table = op[t].table
                /\ SameKey(store[op[t].table].schema, op[t].row, op[u].row))
                   => insert_row(store, op[u].table, op[u].row).err
                          = "UniqueViolation"
            /\ (/\ pc[t] = "create_table_log" /\ op[u].kind = "create_table"
                /\ op[u].table = op[t].table)
                   => create_table(store, op[u].table, op[u].schema).err
                          = "TableExists"

\* Two inserts with the same key are in flight: one has stored its row, the
\* other waits.
C38_Witness ==
    /\ pc[1] = "insert_log" /\ pc[2] = "wait" /\ op[2].kind = "insert"
    /\ SameKey(store["t"].schema, op[1].row, op[2].row)

\* ------------------------------------------------ a failed write changes nothing
\* Task t's facade write returns an error in this step.
ReturnsErr(t) ==
    /\ op[t].kind \in {"create_table", "drop_table", "insert", "update", "delete"}
    /\ pc[t] # "idle" /\ pc'[t] = "idle"
    /\ res'[t].err # "Ok"

\* C39: when create_table, drop_table, insert, update or delete returns an
\* error, also the I/O error of write_log, the store is the one the call
\* found: the store update and delete found under their guard is the store at
\* the return, and a call that returns the error of its log append has left
\* no row it inserted, no table it created and every table it dropped.
C39_ErrorLeavesStore ==
    [][\A t \in Tasks :
          ReturnsErr(t) =>
              /\ store' = Found(t)
              /\ pc[t] = "insert_log" =>
                     ~HasRow(store', op[t].table, op[t].row.id)
              /\ pc[t] = "create_table_log" => op[t].table \notin DOMAIN store'
              /\ pc[t] = "drop_table_log" => op[t].table \in DOMAIN store']_vars

\* An insert has returned the I/O error of write_log.
C39_Witness ==
    \E t \in Tasks : res[t].kind = "insert" /\ res[t].err = "IoError"

\* --------------------------------------------------------- NOT NULL columns
\* C40: in every store state every row holds a non-null value in every
\* column that is declared non-nullable and is not a primary-key column, also
\* after the insert of a row that gives an explicit Null to a column with a
\* default.
C40_NotNullColumns ==
    \A n \in DOMAIN store :
        \A i \in 1..Len(store[n].schema) :
            (~store[n].schema[i].nullable /\ ~store[n].schema[i].primary_key) =>
                \A k \in 1..Len(store[n].rows) :
                    RowGet(store[n].rows[k], store[n].schema[i].name)
                        \notin {NoValue, Null}

\* A row that gave an explicit Null to a non-nullable column with a default
\* was inserted.
C40_Witness ==
    /\ store["t"].schema = SchemaNotNullDefault
    /\ res[1].kind = "table_insert" /\ res[1].err = "Ok"
    /\ RowGet(res[1].rows[1], "v") = Null

====
